---- MODULE Spec2Model ----
(***************************************************************************)
(* Model of cloudcurio-cloudflare-blog.                                     *)
(* Spec, the knowledge-base core:                                          *)
(*   POST /api/knowledge/add     (functions/api/knowledge/add.js 2-59)     *)
(*   GET  /api/knowledge/search  (functions/api/knowledge/search.js)       *)
(*   POST /api/chat              (functions/api/knowledge/add.js 62-147)   *)
(*   vectorize processor queue() (unnamed/part_006)                        *)
(* ResearchSpec:                                                           *)
(*   POST /api/research          (unnamed/part_003 29-120)                 *)
(* BlogSpec:                                                               *)
(*   GET  /api/blog/posts        (unnamed/part_000 627-752, part_001)      *)
(*   POST /api/blog/generate     (functions/api/blog/generate.js)          *)
(*   scheduled()                 (src/workers/blog-generator.js)           *)
(* The three share no state, so each specification leaves the variables of *)
(* the other two unchanged.                                                *)
(* Every await of a handler is a suspension point: a handler is a process  *)
(* whose pc names the call it is waiting for, and the step that resumes it *)
(* runs the synchronous code up to the next await.                         *)
(* Text is a sequence of tokens; an embedding is a sequence of naturals.   *)
(***************************************************************************)
EXTENDS Integers, Sequences, FiniteSets

\* ------------------------------------------------------------------ bounds
NumProc == 1          \* request handlers that may be in flight together
MaxClock == 1         \* Date.now() ranges over 0..MaxClock
MaxRequests == 2      \* requests started in one behaviour
MaxBatches == 1       \* queue batches delivered in one behaviour
NumRuns == 2          \* research requests in one behaviour
NumListers == 2       \* GET /api/blog/posts requests in one behaviour
NumCreators == 2      \* post creations in one behaviour
MaxBlogRequests == 3  \* list requests and creations started in one behaviour

Procs == 1..NumProc
Runs == 1..NumRuns
Listers == 1..NumListers
Creators == 1..NumCreators
Ids == 0..MaxClock

\* ------------------------------------------------------------------- text
\* JS undefined; `${undefined}` is the text "undefined"
undefined == <<"undefined">>
Letters == <<"a", "b">>
NL == <<"\n">>
TitleInputs == {undefined, <<"a">>}
ContentInputs == {<<>>, <<"b">>}
QueryInputs == {<<>>, <<"a">>}
ChatInputs == {undefined, <<"a">>}
MessageTitles == {<<"a">>}
MessageContents == {<<"a">>}

\* mutant of Falsy: only the empty string is rejected, a missing field passes
Falsy_emptyOnly(x) == x = <<>>

\* !x for a JSON string or a missing field
Falsy(x) == x = undefined \/ x = <<>>

RECURSIVE Count(_, _)
Count(ch, text) ==
    IF text = <<>> THEN 0
    ELSE (IF Head(text) = ch THEN 1 ELSE 0) + Count(ch, Tail(text))

\* `${title}\n\n${content}`
EmbedInput(title, content) == title \o NL \o NL \o content

\* the embedding model as a deterministic stub: identical text yields
\* identical vectors (one component per letter)
Embed(text) == [i \in 1..Len(Letters) |-> Count(Letters[i], text)]

NoVec == <<>>         \* embeddings.data[0] when the model returns no vector
Dimension == Len(Letters)

\* --------------------------------------------------------- vector index
Dot(a, b) == LET RECURSIVE S(_)
                 S(i) == IF i = 0 THEN 0 ELSE a[i] * b[i] + S(i - 1)
             IN S(Len(a))

ISqrt(n) == CHOOSE r \in 0..100 : r * r <= n /\ n < (r + 1) * (r + 1)

\* cosine similarity in hundredths, 0 when either vector is the zero vector
Cosine(a, b) ==
    IF Dot(a, a) = 0 \/ Dot(b, b) = 0 THEN 0
    ELSE ISqrt((10000 * Dot(a, b) * Dot(a, b)) \div (Dot(a, a) * Dot(b, b)))

HasVec(index, id) == \E i \in 1..Len(index) : index[i].id = id
VecOf(index, id) == index[CHOOSE i \in 1..Len(index) : index[i].id = id].values

\* insert(id, vector, metadata) that leaves the record of a repeated id as it is
VecInsert_keepFirst(index, rec) ==
    IF HasVec(index, rec.id) THEN index ELSE Append(index, rec)

\* insert(id, vector, metadata): a repeated id overwrites its record
VecInsert(index, rec) ==
    IF HasVec(index, rec.id)
    THEN [i \in 1..Len(index) |-> IF index[i].id = rec.id THEN rec ELSE index[i]]
    ELSE Append(index, rec)

\* position of the best record among the positions in rest: highest score,
\* earliest insertion on a tie
Best(index, vector, rest) ==
    CHOOSE i \in rest : \A j \in rest :
        \/ Cosine(vector, index[i].values) > Cosine(vector, index[j].values)
        \/ /\ Cosine(vector, index[i].values) = Cosine(vector, index[j].values)
           /\ i <= j

RECURSIVE Rank(_, _, _, _)
Rank(index, vector, rest, k) ==
    IF k = 0 \/ rest = {} THEN <<>>
    ELSE LET i == Best(index, vector, rest)
         IN <<[id |-> index[i].id, score |-> Cosine(vector, index[i].values)]>>
            \o Rank(index, vector, rest \ {i}, k - 1)

\* query(vector, {topK}).matches
VecQuery(index, vector, topK) == Rank(index, vector, 1..Len(index), topK)

\* ---------------------------------------------------------------- state
VARIABLES
    now,        \* Date.now()
    db,         \* knowledge_base table: id -> row or NoDoc
    vecs,       \* the Vectorize index, in insertion order
    pc,         \* per handler: the await it is suspended at
    ctx,        \* per handler: its local variables
    calls,      \* per handler: the external calls it issued and their outcomes
    resp,       \* per handler: the Response it returned
    started,    \* number of requests started
    ingested,   \* ids returned by successful ingests
    qpc, batch, qi, qEmbedding, acked, retried, delivered,  \* vectorize processor
    env,        \* context.env: which bindings the deployment has
    deploy,     \* which version of a route's handler is deployed
    rpc, rctx, rcalls, rresp,           \* per research request
    posts,      \* blog_posts table, in insertion order
    cache,      \* BLOG_CACHE entry under the key 'blog_posts'
    lpc, lctx, lcalls, lresp,           \* per list request
    cpc, cctx, ccalls, cresp,           \* per post creation
    created,    \* ids of the posts whose creation has completed
    fpc, fctx, flog, fresult,           \* the page's fetchWithRetry call
    tasks,      \* research_tasks table: id -> row
    apc, actx, abatch, aqi, alog, asettled, adelivered,  \* research agent
    buttons,    \* the page's action buttons: disabled, textContent
    upc, uctx,  \* the page's running action handler and its locals
    view        \* what the research output container shows

vars == <<now, db, vecs, pc, ctx, calls, resp, started, ingested,
          qpc, batch, qi, qEmbedding, acked, retried, delivered,
          env, deploy, rpc, rctx, rcalls, rresp,
          posts, cache, lpc, lctx, lcalls, lresp, cpc, cctx, ccalls, cresp,
          created, fpc, fctx, flog, fresult,
          tasks, apc, actx, abatch, aqi, alog, asettled, adelivered,
          buttons, upc, uctx, view>>
reqVars == <<pc, ctx, calls, resp, started>>
queueVars == <<qpc, batch, qi, qEmbedding, acked, retried, delivered>>
kbVars == <<db, vecs, ingested, reqVars, queueVars>>
researchVars == <<rpc, rctx, rcalls, rresp>>
blogVars == <<posts, cache, lpc, lctx, lcalls, lresp, cpc, cctx, ccalls, cresp,
              created>>
clientVars == <<fpc, fctx, flog, fresult>>
agentVars == <<tasks, apc, actx, abatch, aqi, alog, asettled, adelivered>>
pageVars == <<buttons, upc, uctx, view>>
extVars == <<env, deploy, researchVars, blogVars, clientVars, agentVars, pageVars>>

\* a lookup that found no row (results.length = 0, mapped to null)
NoDoc == [id |-> -1, title |-> <<>>, content |-> <<>>, present |-> FALSE]
Row(id, title, content) ==
    [id |-> id, title |-> title, content |-> content, present |-> TRUE]
NoResp == [status |-> 0, body |-> [tag |-> "none"]]
NoCtx == [kind |-> "none"]

\* Response.json({success: false, error}, {status})
ErrorResp(status, msg) ==
    [status |-> status, body |-> [tag |-> "error", error |-> msg]]

Log(p, events) == calls' = [calls EXCEPT ![p] = @ \o events]
Finish(p, r) == /\ pc' = [pc EXCEPT ![p] = "done"]
                /\ resp' = [resp EXCEPT ![p] = r]
CanStart(p) == pc[p] \in {"idle", "done"} /\ started < MaxRequests

\* a deployment with every binding of wrangler.toml present
AllBound == [AI |-> TRUE, DB |-> TRUE, BLOG_CACHE |-> TRUE]

\* BLOG_CACHE.get('blog_posts') returning null
NoEntry == [present |-> FALSE, value |-> <<>>, ttl |-> 0]

\* no research request has arrived
ResearchIdle ==
    /\ rpc = [r \in Runs |-> "idle"]
    /\ rctx = [r \in Runs |-> NoCtx]
    /\ rcalls = [r \in Runs |-> <<>>]
    /\ rresp = [r \in Runs |-> NoResp]

\* no blog request has arrived; blog_posts and the cache are empty
HandlersOfBlogIdle ==
    /\ lpc = [l \in Listers |-> "idle"]
    /\ lctx = [l \in Listers |-> NoCtx]
    /\ lcalls = [l \in Listers |-> <<>>]
    /\ lresp = [l \in Listers |-> NoResp]
    /\ cpc = [c \in Creators |-> "idle"]
    /\ cctx = [c \in Creators |-> NoCtx]
    /\ ccalls = [c \in Creators |-> <<>>]
    /\ cresp = [c \in Creators |-> NoResp]
    /\ created = {}
BlogIdle == posts = <<>> /\ cache = NoEntry /\ HandlersOfBlogIdle

\* no fetchWithRetry call has been made
NoFetch == [kind |-> "none"]
NoResult == [kind |-> "none", status |-> 0, name |-> ""]
ClientIdle == fpc = "idle" /\ fctx = NoFetch /\ flog = <<>> /\ fresult = NoResult

\* the tasks whose messages are on the research queue
TaskIds == 1..2
\* schema.sql 30-38: a task as its producer inserted it (status DEFAULT
\* 'pending', result NULL)
PendingTask == [status |-> "pending", result |-> undefined]
\* the research agent is not running and nothing was delivered to it
NoAgentCtx == [kind |-> "none"]
AgentIdle ==
    /\ tasks = [t \in TaskIds |-> PendingTask]
    /\ apc = "idle" /\ actx = NoAgentCtx
    /\ abatch = <<>> /\ aqi = 0 /\ alog = <<>> /\ asettled = <<>>
    /\ adelivered = 0

\* the buttons that start a request, and the labels the handlers write
ButtonIds == {"generate-post", "add-to-kb", "start-research"}
Button(disabled, textContent) == [disabled |-> disabled, textContent |-> textContent]
\* no action handler of the page is running
NoAction == [kind |-> "none"]
\* the label the page is written for (app.js 264 names the first, 1462 the
\* last)
DefaultLabel(b) ==
    CASE b = "generate-post" -> "Generate New Post"
      [] b = "add-to-kb" -> "Add to Knowledge Base"
      [] OTHER -> "Start Research"
\* the research output container is empty and no message has been shown
NoView == [output |-> "empty", alert |-> "none"]
PageIdle ==
    /\ buttons = [b \in ButtonIds |-> Button(FALSE, DefaultLabel(b))]
    /\ upc = "idle" /\ uctx = NoAction
    /\ view = NoView

\* --------------------------------------------- POST /api/knowledge/add
\* add.js 4-28: parse, validate, issue the embedding call
Ingest(p, title, content) ==
    /\ CanStart(p)
    /\ started' = started + 1
    /\ ctx' = [ctx EXCEPT ![p] = [kind |-> "add", title |-> title,
                 content |-> content, embedding |-> NoVec, id |-> -1]]
    /\ IF Falsy(title) \/ Falsy(content)
       THEN /\ Finish(p, ErrorResp(400, "Title and content are required"))
            /\ calls' = [calls EXCEPT ![p] = <<>>]
       ELSE /\ pc' = [pc EXCEPT ![p] = "add_embed"]
            /\ resp' = [resp EXCEPT ![p] = NoResp]
            /\ calls' = [calls EXCEPT ![p] = <<"embed">>]
    /\ UNCHANGED <<now, db, vecs, ingested, queueVars, extVars>>

\* mutant of IngestEmbedReturn: only the content is embedded
IngestEmbedReturn_contentOnly(p) ==
    /\ pc[p] = "add_embed"
    /\ \/ /\ \E e \in {Embed(ctx[p].content), NoVec} :
                ctx' = [ctx EXCEPT ![p].embedding = e, ![p].id = now]
          /\ pc' = [pc EXCEPT ![p] = "add_db"]
          /\ Log(p, <<"embed.ok", "db.insert">>)
          /\ UNCHANGED resp
       \/ /\ Finish(p, ErrorResp(500, "embedding failed"))
          /\ Log(p, <<"embed.fail">>)
          /\ UNCHANGED ctx
    /\ UNCHANGED <<now, db, vecs, started, ingested, queueVars, extVars>>

\* add.js 26-39: the embedding call returns; id from the clock; issue INSERT
IngestEmbedReturn(p) ==
    /\ pc[p] = "add_embed"
    /\ \/ /\ \E e \in {Embed(EmbedInput(ctx[p].title, ctx[p].content)), NoVec} :
                ctx' = [ctx EXCEPT ![p].embedding = e, ![p].id = now]
          /\ pc' = [pc EXCEPT ![p] = "add_db"]
          /\ Log(p, <<"embed.ok", "db.insert">>)
          /\ UNCHANGED resp
       \/ /\ Finish(p, ErrorResp(500, "embedding failed"))
          /\ Log(p, <<"embed.fail">>)
          /\ UNCHANGED ctx
    /\ UNCHANGED <<now, db, vecs, started, ingested, queueVars, extVars>>

\* mutant of IngestDbReturn: a failed INSERT is swallowed and the vector
\* insert is issued all the same
IngestDbReturn_swallow(p) ==
    /\ pc[p] = "add_db"
    /\ \/ /\ ~db[ctx[p].id].present
          /\ db' = [db EXCEPT ![ctx[p].id] =
                       Row(ctx[p].id, ctx[p].title, ctx[p].content)]
          /\ Log(p, <<"db.insert.ok", "vectors.insert">>)
       \/ /\ Log(p, <<"db.insert.fail", "vectors.insert">>)
          /\ UNCHANGED db
    /\ pc' = [pc EXCEPT ![p] = "add_vec"]
    /\ UNCHANGED <<now, vecs, ctx, resp, started, ingested, queueVars, extVars>>

\* add.js 36-46: the INSERT returns (id is PRIMARY KEY); issue vectors.insert
IngestDbReturn(p) ==
    /\ pc[p] = "add_db"
    /\ \/ /\ ~db[ctx[p].id].present
          /\ db' = [db EXCEPT ![ctx[p].id] =
                       Row(ctx[p].id, ctx[p].title, ctx[p].content)]
          /\ pc' = [pc EXCEPT ![p] = "add_vec"]
          /\ Log(p, <<"db.insert.ok", "vectors.insert">>)
          /\ UNCHANGED resp
       \/ /\ \E msg \in {"D1 error"} \cup
                  (IF db[ctx[p].id].present THEN {"UNIQUE constraint failed"} ELSE {}) :
                Finish(p, ErrorResp(500, msg))
          /\ Log(p, <<"db.insert.fail">>)
          /\ UNCHANGED db
    /\ UNCHANGED <<now, vecs, ctx, started, ingested, queueVars, extVars>>

\* add.js 42-57: vectors.insert returns; respond
IngestVecReturn(p) ==
    /\ pc[p] = "add_vec"
    /\ \/ /\ Len(ctx[p].embedding) = Dimension
          /\ vecs' = VecInsert(vecs, [id |-> ctx[p].id, values |-> ctx[p].embedding,
                                      title |-> ctx[p].title])
          /\ Finish(p, [status |-> 200, body |-> [tag |-> "added", id |-> ctx[p].id]])
          /\ Log(p, <<"vectors.insert.ok">>)
          /\ ingested' = ingested \cup {ctx[p].id}
       \/ /\ Finish(p, ErrorResp(500, "vector insert failed"))
          /\ Log(p, <<"vectors.insert.fail">>)
          /\ UNCHANGED <<vecs, ingested>>
    /\ UNCHANGED <<now, db, ctx, started, queueVars, extVars>>

\* ------------------------------------------- GET /api/knowledge/search
SearchTopK == 5
ChatTopK == 3

\* positions of the lookups that found a row, in order
Found(rows) == SelectSeq([i \in 1..Len(rows) |-> i], LAMBDA i : rows[i].present)

\* mutant of SearchResults: the null entries are not filtered out
SearchResults_noFilter(matches, rows) ==
    [i \in 1..Len(rows) |->
        [id |-> rows[i].id, title |-> rows[i].title,
         content |-> rows[i].content, score |-> matches[i].score]]

\* search.js 43-53: {...results[0], score: match.score}, nulls filtered out
SearchResults(matches, rows) ==
    [k \in 1..Len(Found(rows)) |->
        LET i == Found(rows)[k]
        IN [id |-> rows[i].id, title |-> rows[i].title,
            content |-> rows[i].content, score |-> matches[i].score]]

\* SELECT ... FROM knowledge_base WHERE id = ?
Lookup(id) == IF db[id].present THEN db[id] ELSE NoDoc

\* search.js 4-23: parse, validate, issue the embedding call
Search(p, query) ==
    /\ CanStart(p)
    /\ started' = started + 1
    /\ ctx' = [ctx EXCEPT ![p] = [kind |-> "search", query |-> query,
                 queryVector |-> NoVec, matches |-> <<>>, rows |-> <<>>,
                 after |-> ingested]]
    /\ IF Falsy(query)
       THEN /\ Finish(p, ErrorResp(400, "Query parameter required"))
            /\ calls' = [calls EXCEPT ![p] = <<>>]
       ELSE /\ pc' = [pc EXCEPT ![p] = "search_embed"]
            /\ resp' = [resp EXCEPT ![p] = NoResp]
            /\ calls' = [calls EXCEPT ![p] = <<"embed">>]
    /\ UNCHANGED <<now, db, vecs, ingested, queueVars, extVars>>

\* mutant of SearchEmbedReturn: a failed embedding degrades to an empty list
SearchEmbedReturn_degrade(p) ==
    /\ pc[p] = "search_embed"
    /\ \/ /\ \E e \in {Embed(ctx[p].query), NoVec} :
                ctx' = [ctx EXCEPT ![p].queryVector = e]
          /\ pc' = [pc EXCEPT ![p] = "search_query"]
          /\ Log(p, <<"embed.ok", "vectors.query">>)
          /\ UNCHANGED resp
       \/ /\ Finish(p, [status |-> 200, body |->
                           [tag |-> "results", results |-> <<>>]])
          /\ Log(p, <<"embed.fail">>)
          /\ UNCHANGED ctx
    /\ UNCHANGED <<now, db, vecs, started, ingested, queueVars, extVars>>

\* search.js 21-32: the embedding call returns; issue vectors.query
SearchEmbedReturn(p) ==
    /\ pc[p] = "search_embed"
    /\ \/ /\ \E e \in {Embed(ctx[p].query), NoVec} :
                ctx' = [ctx EXCEPT ![p].queryVector = e]
          /\ pc' = [pc EXCEPT ![p] = "search_query"]
          /\ Log(p, <<"embed.ok", "vectors.query">>)
          /\ UNCHANGED resp
       \/ /\ Finish(p, ErrorResp(500, "embedding failed"))
          /\ Log(p, <<"embed.fail">>)
          /\ UNCHANGED ctx
    /\ UNCHANGED <<now, db, vecs, started, ingested, queueVars, extVars>>

\* mutant of SearchQueryReturn: the query asks for one match too many
SearchQueryReturn_top6(p) ==
    /\ pc[p] = "search_query"
    /\ \/ /\ Len(ctx[p].queryVector) = Dimension
          /\ LET matches == VecQuery(vecs, ctx[p].queryVector, SearchTopK + 1)
             IN /\ ctx' = [ctx EXCEPT ![p].matches = matches]
                /\ IF matches = <<>>
                   THEN /\ Finish(p, [status |-> 200, body |->
                               [tag |-> "results", results |-> <<>>]])
                        /\ Log(p, <<"vectors.query.ok">>)
                   ELSE /\ pc' = [pc EXCEPT ![p] = "search_lookup"]
                        /\ Log(p, <<"vectors.query.ok">> \o
                                  [i \in 1..Len(matches) |-> "db.select"])
                        /\ UNCHANGED resp
       \/ /\ Finish(p, ErrorResp(500, "vector query failed"))
          /\ Log(p, <<"vectors.query.fail">>)
          /\ UNCHANGED ctx
    /\ UNCHANGED <<now, db, vecs, started, ingested, queueVars, extVars>>

\* search.js 28-41: vectors.query returns; Promise.all issues one SELECT per
\* match (none for an empty match list, which responds at once)
SearchQueryReturn(p) ==
    /\ pc[p] = "search_query"
    /\ \/ /\ Len(ctx[p].queryVector) = Dimension
          /\ LET matches == VecQuery(vecs, ctx[p].queryVector, SearchTopK)
             IN /\ ctx' = [ctx EXCEPT ![p].matches = matches]
                /\ IF matches = <<>>
                   THEN /\ Finish(p, [status |-> 200, body |->
                               [tag |-> "results", results |-> <<>>]])
                        /\ Log(p, <<"vectors.query.ok">>)
                   ELSE /\ pc' = [pc EXCEPT ![p] = "search_lookup"]
                        /\ Log(p, <<"vectors.query.ok">> \o
                                  [i \in 1..Len(matches) |-> "db.select"])
                        /\ UNCHANGED resp
       \/ /\ Finish(p, ErrorResp(500, "vector query failed"))
          /\ Log(p, <<"vectors.query.fail">>)
          /\ UNCHANGED ctx
    /\ UNCHANGED <<now, db, vecs, started, ingested, queueVars, extVars>>

\* search.js 37-56: the next SELECT returns; after the last one, respond
SearchLookupReturn(p) ==
    /\ pc[p] = "search_lookup"
    /\ \/ LET rows == Append(ctx[p].rows,
                             Lookup(ctx[p].matches[Len(ctx[p].rows) + 1].id))
          IN /\ ctx' = [ctx EXCEPT ![p].rows = rows]
             /\ Log(p, <<"db.select.ok">>)
             /\ IF Len(rows) = Len(ctx[p].matches)
                THEN Finish(p, [status |-> 200, body |-> [tag |-> "results",
                         results |-> SearchResults(ctx[p].matches, rows)]])
                ELSE UNCHANGED <<pc, resp>>
       \/ /\ Finish(p, ErrorResp(500, "D1 error"))
          /\ Log(p, <<"db.select.fail">>)
          /\ UNCHANGED ctx
    /\ UNCHANGED <<now, db, vecs, started, ingested, queueVars, extVars>>

\* ------------------------------------------------------ POST /api/chat
Header == <<"\n", "\n", "Relevant context from knowledge base:", "\n">>
Apology == <<"I apologize, but I could not generate a response.">>
Sorry == <<"Sorry, I encountered an error processing your request.">>
GenTexts == {<<"r">>}

\* add.js 109: `${results[0].title}: ${results[0].content}`
Render(row) == row.title \o <<":", " ">> \o row.content

\* Array.prototype.join
RECURSIVE Join(_, _)
Join(texts, sep) ==
    IF texts = <<>> THEN <<>>
    ELSE IF Len(texts) = 1 THEN texts[1]
    ELSE texts[1] \o sep \o Join(Tail(texts), sep)

\* mutant of ContextInfo: the documents are joined by a single newline
ContextInfo_singleNewline(rows) ==
    LET validDocs == [k \in 1..Len(Found(rows)) |-> Render(rows[Found(rows)[k]])]
    IN IF Len(validDocs) > 0 THEN Header \o Join(validDocs, NL) ELSE <<>>

\* add.js 115-118: validDocs and contextInfo from the lookups
ContextInfo(rows) ==
    LET validDocs == [k \in 1..Len(Found(rows)) |-> Render(rows[Found(rows)[k]])]
    IN IF Len(validDocs) > 0 THEN Header \o Join(validDocs, NL \o NL) ELSE <<>>

\* mutant of Messages: the context block is put in front of the message
Messages_prepend(message, contextInfo) ==
    << [role |-> "system", content |->
           <<"You are a helpful AI assistant.", " ">> \o
           (IF contextInfo # <<>>
            THEN <<"Use the provided context to answer questions when relevant.">>
            ELSE <<>>)],
       [role |-> "user", content |-> contextInfo \o message] >>

\* add.js 127-134: the message list of the generator call
Messages(message, contextInfo) ==
    << [role |-> "system", content |->
           <<"You are a helpful AI assistant.", " ">> \o
           (IF contextInfo # <<>>
            THEN <<"Use the provided context to answer questions when relevant.">>
            ELSE <<>>)],
       [role |-> "user", content |-> message \o contextInfo] >>

\* add.js 126-135: build the prompts and issue the generator call
Generate(p, c, events) ==
    /\ ctx' = [ctx EXCEPT ![p] = [c EXCEPT
                 !.generated = Append(@, Messages(c.message, c.contextInfo))]]
    /\ pc' = [pc EXCEPT ![p] = "chat_gen"]
    /\ Log(p, events \o <<"generate">>)
    /\ UNCHANGED resp

\* add.js 64-87: parse, validate, issue the embedding call
Chat(p, message) ==
    /\ CanStart(p)
    /\ started' = started + 1
    /\ ctx' = [ctx EXCEPT ![p] = [kind |-> "chat", message |-> message,
                 queryVector |-> NoVec, matches |-> <<>>, rows |-> <<>>,
                 contextInfo |-> <<>>, generated |-> <<>>]]
    /\ IF Falsy(message)
       THEN /\ Finish(p, ErrorResp(400, "Message is required"))
            /\ calls' = [calls EXCEPT ![p] = <<>>]
       ELSE /\ pc' = [pc EXCEPT ![p] = "chat_embed"]
            /\ resp' = [resp EXCEPT ![p] = NoResp]
            /\ calls' = [calls EXCEPT ![p] = <<"embed">>]
    /\ UNCHANGED <<now, db, vecs, ingested, queueVars, extVars>>

\* add.js 85-96, 120-123: the embedding call returns; issue vectors.query,
\* or on failure continue without context
ChatEmbedReturn(p) ==
    /\ pc[p] = "chat_embed"
    /\ \/ /\ \E e \in {Embed(ctx[p].message), NoVec} :
                ctx' = [ctx EXCEPT ![p].queryVector = e]
          /\ pc' = [pc EXCEPT ![p] = "chat_query"]
          /\ Log(p, <<"embed.ok", "vectors.query">>)
          /\ UNCHANGED resp
       \/ Generate(p, ctx[p], <<"embed.fail">>)
    /\ UNCHANGED <<now, db, vecs, started, ingested, queueVars, extVars>>

\* add.js 92-106, 120-123: vectors.query returns; one SELECT per match
ChatQueryReturn(p) ==
    /\ pc[p] = "chat_query"
    /\ \/ /\ Len(ctx[p].queryVector) = Dimension
          /\ LET matches == VecQuery(vecs, ctx[p].queryVector, ChatTopK)
             IN IF matches = <<>>
                THEN Generate(p, ctx[p], <<"vectors.query.ok">>)
                ELSE /\ ctx' = [ctx EXCEPT ![p].matches = matches]
                     /\ pc' = [pc EXCEPT ![p] = "chat_lookup"]
                     /\ Log(p, <<"vectors.query.ok">> \o
                               [i \in 1..Len(matches) |-> "db.select"])
                     /\ UNCHANGED resp
       \/ Generate(p, ctx[p], <<"vectors.query.fail">>)
    /\ UNCHANGED <<now, db, vecs, started, ingested, queueVars, extVars>>

\* mutant of ChatLookupReturn: a failed SELECT keeps the documents found so far
ChatLookupReturn_partial(p) ==
    /\ pc[p] = "chat_lookup"
    /\ \/ LET rows == Append(ctx[p].rows,
                             Lookup(ctx[p].matches[Len(ctx[p].rows) + 1].id))
          IN IF Len(rows) = Len(ctx[p].matches)
             THEN Generate(p, [ctx[p] EXCEPT !.rows = rows,
                                  !.contextInfo = ContextInfo(rows)],
                           <<"db.select.ok">>)
             ELSE /\ ctx' = [ctx EXCEPT ![p].rows = rows]
                  /\ Log(p, <<"db.select.ok">>)
                  /\ UNCHANGED <<pc, resp>>
       \/ Generate(p, [ctx[p] EXCEPT !.contextInfo = ContextInfo(ctx[p].rows)],
                   <<"db.select.fail">>)
    /\ UNCHANGED <<now, db, vecs, started, ingested, queueVars, extVars>>

\* add.js 102-123: the next SELECT returns; after the last one build
\* contextInfo; a failed SELECT rejects Promise.all and leaves it empty
ChatLookupReturn(p) ==
    /\ pc[p] = "chat_lookup"
    /\ \/ LET rows == Append(ctx[p].rows,
                             Lookup(ctx[p].matches[Len(ctx[p].rows) + 1].id))
          IN IF Len(rows) = Len(ctx[p].matches)
             THEN Generate(p, [ctx[p] EXCEPT !.rows = rows,
                                  !.contextInfo = ContextInfo(rows)],
                           <<"db.select.ok">>)
             ELSE /\ ctx' = [ctx EXCEPT ![p].rows = rows]
                  /\ Log(p, <<"db.select.ok">>)
                  /\ UNCHANGED <<pc, resp>>
       \/ Generate(p, ctx[p], <<"db.select.fail">>)
    /\ UNCHANGED <<now, db, vecs, started, ingested, queueVars, extVars>>

\* mutant of ChatGenReturn: an empty generation is returned as it is
ChatGenReturn_noFallback(p) ==
    /\ pc[p] = "chat_gen"
    /\ \/ /\ \E text \in GenTexts \cup {<<>>} :
                Finish(p, [status |-> 200, body |-> [tag |-> "chat",
                    response |-> text]])
          /\ Log(p, <<"generate.ok">>)
       \/ /\ Finish(p, [status |-> 500, body |-> [tag |-> "chatError",
                    error |-> "generation failed", response |-> Sorry]])
          /\ Log(p, <<"generate.fail">>)
    /\ UNCHANGED <<now, db, vecs, ctx, started, ingested, queueVars, extVars>>

\* add.js 130-146: the generator call returns; respond
ChatGenReturn(p) ==
    /\ pc[p] = "chat_gen"
    /\ \/ /\ \E text \in GenTexts \cup {<<>>} :
                Finish(p, [status |-> 200, body |-> [tag |-> "chat",
                    response |-> IF text # <<>> THEN text ELSE Apology]])
          /\ Log(p, <<"generate.ok">>)
       \/ /\ Finish(p, [status |-> 500, body |-> [tag |-> "chatError",
                    error |-> "generation failed", response |-> Sorry]])
          /\ Log(p, <<"generate.fail">>)
    /\ UNCHANGED <<now, db, vecs, ctx, started, ingested, queueVars, extVars>>

\* ------------------------------------------- vectorize processor queue()
MaxBatchLen == 2
QueueMessages == [id : Ids, title : MessageTitles, content : MessageContents]
Batches == UNION {[1..n -> QueueMessages] : n \in 1..MaxBatchLen}

\* a consumer that stops at the first message it retries
NextMessage_stopOnRetry(settle) ==
    /\ acked' = IF settle = "ack" THEN Append(acked, qi) ELSE acked
    /\ retried' = IF settle = "retry" THEN Append(retried, qi) ELSE retried
    /\ qi' = qi + 1
    /\ qpc' = IF qi < Len(batch) /\ settle = "ack" THEN "q_embed" ELSE "idle"
    /\ qEmbedding' = NoVec

\* part_006 9-16, 28-33: settle the current message (ack or retry) and move
\* to the next one, issuing its embedding call; return after the last
NextMessage(settle) ==
    /\ acked' = IF settle = "ack" THEN Append(acked, qi) ELSE acked
    /\ retried' = IF settle = "retry" THEN Append(retried, qi) ELSE retried
    /\ qi' = qi + 1
    /\ qpc' = IF qi < Len(batch) THEN "q_embed" ELSE "idle"
    /\ qEmbedding' = NoVec

\* the platform delivers a batch; queue() issues the first embedding call
Deliver(b) ==
    /\ qpc = "idle"
    /\ delivered < MaxBatches
    /\ delivered' = delivered + 1
    /\ batch' = b
    /\ qi' = 1
    /\ qpc' = "q_embed"
    /\ acked' = <<>>
    /\ retried' = <<>>
    /\ qEmbedding' = NoVec
    /\ UNCHANGED <<now, db, vecs, ingested, reqVars, extVars>>

\* part_006 14-25, 29-32: the embedding call returns; issue VECTORS.insert
QueueEmbedReturn ==
    /\ qpc = "q_embed"
    /\ \/ /\ \E e \in {Embed(EmbedInput(batch[qi].title, batch[qi].content)), NoVec} :
                qEmbedding' = e
          /\ qpc' = "q_insert"
          /\ UNCHANGED <<qi, acked, retried>>
       \/ NextMessage("retry")
    /\ UNCHANGED <<now, db, vecs, ingested, reqVars, batch, delivered, extVars>>

\* part_006 21-32: VECTORS.insert returns; ack, or retry on failure
QueueInsertReturn ==
    /\ qpc = "q_insert"
    /\ \/ /\ Len(qEmbedding) = Dimension
          /\ vecs' = VecInsert(vecs, [id |-> batch[qi].id, values |-> qEmbedding,
                                      title |-> batch[qi].title])
          /\ NextMessage("ack")
       \/ /\ NextMessage("retry")
          /\ UNCHANGED vecs
    /\ UNCHANGED <<now, db, ingested, reqVars, batch, delivered, extVars>>

\* ------------------------------------------------------------- the system
\* the clock behind Date.now() advances
Tick ==
    /\ now < MaxClock
    /\ now' = now + 1
    /\ UNCHANGED <<db, vecs, ingested, reqVars, queueVars, extVars>>

\* rows of seed.sql (part_009 42-80), their text abstracted to tokens
SeedIds == 100..104
SeedRows ==
    [id \in SeedIds |->
        CASE id = 100 -> Row(id, <<"a">>, <<"a">>)
          [] id = 101 -> Row(id, <<"a">>, <<"a", "b">>)
          [] id = 102 -> Row(id, <<"a">>, <<"b">>)
          [] id = 103 -> Row(id, <<"b">>, <<"a", "b">>)
          [] id = 104 -> Row(id, <<"b">>, <<"b">>)]
AllIds == Ids \cup SeedIds

\* a fresh deployment (schema.sql), or one with seed.sql applied and its rows
\* vectorized
FreshDb == [id \in AllIds |-> NoDoc]
SeededDb == [id \in AllIds |-> IF id \in SeedIds THEN SeedRows[id] ELSE NoDoc]
SeededVecs ==
    [k \in 1..Cardinality(SeedIds) |->
        LET r == SeedRows[99 + k]
        IN [id |-> r.id, values |-> Embed(EmbedInput(r.title, r.content)),
            title |-> r.title]]

\* no request handler or queue consumer has run yet
HandlersIdle ==
    /\ pc = [p \in Procs |-> "idle"]
    /\ ctx = [p \in Procs |-> NoCtx]
    /\ calls = [p \in Procs |-> <<>>]
    /\ resp = [p \in Procs |-> NoResp]
    /\ started = 0
    /\ ingested = {}
    /\ qpc = "idle"
    /\ batch = <<>>
    /\ qi = 1
    /\ qEmbedding = NoVec
    /\ acked = <<>>
    /\ retried = <<>>
    /\ delivered = 0

Init ==
    /\ now = 0
    /\ \/ db = FreshDb /\ vecs = <<>>
       \/ db = SeededDb /\ vecs = SeededVecs
    /\ HandlersIdle
    /\ env = AllBound
    /\ deploy = [posts |-> "part_000"]
    /\ ResearchIdle
    /\ BlogIdle
    /\ ClientIdle
    /\ AgentIdle
    /\ PageIdle

Next ==
    \/ Tick
    \/ \E p \in Procs, t \in TitleInputs, c \in ContentInputs : Ingest(p, t, c)
    \/ \E p \in Procs : IngestEmbedReturn(p)
    \/ \E p \in Procs : IngestDbReturn(p)
    \/ \E p \in Procs : IngestVecReturn(p)
    \/ \E p \in Procs, q \in QueryInputs : Search(p, q)
    \/ \E p \in Procs : SearchEmbedReturn(p)
    \/ \E p \in Procs : SearchQueryReturn(p)
    \/ \E p \in Procs : SearchLookupReturn(p)
    \/ \E p \in Procs, m \in ChatInputs : Chat(p, m)
    \/ \E p \in Procs : ChatEmbedReturn(p)
    \/ \E p \in Procs : ChatQueryReturn(p)
    \/ \E p \in Procs : ChatLookupReturn(p)
    \/ \E p \in Procs : ChatGenReturn(p)
    \/ \E b \in Batches : Deliver(b)
    \/ QueueEmbedReturn
    \/ QueueInsertReturn

Spec == Init /\ [][Next]_vars

TypeOK ==
    /\ now \in Ids
    /\ \A p \in Procs : pc[p] \in {"idle", "done", "add_embed", "add_db", "add_vec",
           "search_embed", "search_query", "search_lookup",
           "chat_embed", "chat_query", "chat_lookup", "chat_gen"}
    /\ \A i \in 1..Len(vecs) : Len(vecs[i].values) = Dimension

\* ======================================================= POST /api/research
\* part_003 29-120.  A run is one research request; its generator calls are
\* logged in rcalls[r] with the messages sent and the outcome.
ResearchQueries == {<<>>, <<"q">>}
ResearchTypes == {"comprehensive", "quick", "comparison", "deep-dive", "undefined"}
PhaseTexts == {<<>>, <<"r">>}      \* response.response of a phase call
FinalTexts == {<<>>, <<"f">>}      \* response.response of the final call
ResearchEnvs == {[AllBound EXCEPT !.AI = a] : a \in BOOLEAN}

\* a system prompt that ignores the type
SystemPrompt_noSuffix(type) ==
    <<"You are a research assistant specialized in deep analysis.">>

\* part_003 51-67: the base prompt and the switch over type
SystemPrompt(type) ==
    <<"You are a research assistant specialized in deep analysis.">> \o
    CASE type = "comprehensive" ->
           <<" Provide a comprehensive, well-structured research report with multiple perspectives.">>
      [] type = "quick" -> <<" Provide a concise summary of key points.">>
      [] type = "comparison" ->
           <<" Compare different approaches, technologies, or concepts systematically.">>
      [] type = "deep-dive" ->
           <<" Provide an in-depth technical analysis with detailed explanations.">>
      [] OTHER -> <<>>

\* part_003 70-74
researchSteps(query) ==
    << [role |-> "Initial Research",
        prompt |-> <<"Research the following topic: ">> \o query],
       [role |-> "Critical Analysis",
        prompt |-> <<"Critically analyze: ">> \o query],
       [role |-> "Synthesis",
        prompt |-> <<"Synthesize findings about: ">> \o query] >>
FinalReport == "FinalReport"

\* mutant of StepMessages: a phase prompt carries the findings gathered so far
StepMessages_chained(c, k) ==
    << [role |-> "system", content |-> c.systemPrompt],
       [role |-> "user", content |-> researchSteps(c.query)[k].prompt \o
           Join([i \in 1..Len(c.findings) |-> c.findings[i].content], NL)] >>

\* part_003 80-85: the messages of the k-th phase call
StepMessages(c, k) ==
    << [role |-> "system", content |-> c.systemPrompt],
       [role |-> "user", content |-> researchSteps(c.query)[k].prompt] >>

\* part_003 97: `${f.step}:\n${f.content}` joined by blank lines, after the
\* instruction that quotes the query
FinalPrompt(query, findings) ==
    <<"Based on the following research findings, create a comprehensive final report about \"">>
    \o query \o <<"\":", "\n", "\n">> \o
    Join([i \in 1..Len(findings) |->
             <<findings[i].step, ":", "\n">> \o findings[i].content], NL \o NL)

\* part_003 99-104: the messages of the final call
FinalMessages(c) ==
    << [role |-> "system", content |->
           <<"You are a research report writer. Create a clear, well-organized final report.">>],
       [role |-> "user", content |-> FinalPrompt(c.query, c.findings)] >>

Pending(phase, messages) ==
    [phase |-> phase, messages |-> messages, outcome |-> "pending", text |-> <<>>]
\* the outstanding call of a log has returned text ("ok") or thrown ("fail")
Settle(log, outcome, text) ==
    [log EXCEPT ![Len(log)].outcome = outcome, ![Len(log)].text = text]

\* mutant of Research: the three phase calls are issued together
Research_parallel(r, query, type) ==
    /\ rpc[r] = "idle"
    /\ LET c == [kind |-> "research", query |-> query, type |-> type,
                 systemPrompt |-> SystemPrompt(type), step |-> 1,
                 findings |-> <<>>]
       IN /\ rctx' = [rctx EXCEPT ![r] = c]
          /\ IF Falsy(query)
             THEN /\ rpc' = [rpc EXCEPT ![r] = "done"]
                  /\ rresp' = [rresp EXCEPT ![r] = ErrorResp(400, "Query is required")]
                  /\ UNCHANGED rcalls
             ELSE IF ~env.AI
             THEN /\ rpc' = [rpc EXCEPT ![r] = "done"]
                  /\ rresp' = [rresp EXCEPT ![r] =
                                 ErrorResp(500, "AI service not configured")]
                  /\ UNCHANGED rcalls
             ELSE /\ rcalls' = [rcalls EXCEPT ![r] =
                        [k \in 1..3 |-> Pending(researchSteps(query)[k].role,
                                                StepMessages(c, k))]]
                  /\ rpc' = [rpc EXCEPT ![r] = "phase"]
                  /\ UNCHANGED rresp
    /\ UNCHANGED <<now, kbVars, agentVars, pageVars, clientVars,
                   env, deploy, blogVars>>

\* mutant of Research: a missing AI binding is not checked for
Research_noAiCheck(r, query, type) ==
    /\ rpc[r] = "idle"
    /\ LET c == [kind |-> "research", query |-> query, type |-> type,
                 systemPrompt |-> SystemPrompt(type), step |-> 1,
                 findings |-> <<>>]
       IN /\ rctx' = [rctx EXCEPT ![r] = c]
          /\ IF Falsy(query)
             THEN /\ rpc' = [rpc EXCEPT ![r] = "done"]
                  /\ rresp' = [rresp EXCEPT ![r] = ErrorResp(400, "Query is required")]
                  /\ UNCHANGED rcalls
             ELSE /\ rcalls' = [rcalls EXCEPT ![r] =
                        <<Pending(researchSteps(query)[1].role, StepMessages(c, 1))>>]
                  /\ rpc' = [rpc EXCEPT ![r] = "phase"]
                  /\ UNCHANGED rresp
    /\ UNCHANGED <<now, kbVars, agentVars, pageVars, clientVars,
                   env, deploy, blogVars>>

\* part_003 31-85: parse, validate, build the prompts, issue the first call
Research(r, query, type) ==
    /\ rpc[r] = "idle"
    /\ LET c == [kind |-> "research", query |-> query, type |-> type,
                 systemPrompt |-> SystemPrompt(type), step |-> 1,
                 findings |-> <<>>]
       IN /\ rctx' = [rctx EXCEPT ![r] = c]
          /\ IF Falsy(query)
             THEN /\ rpc' = [rpc EXCEPT ![r] = "done"]
                  /\ rresp' = [rresp EXCEPT ![r] = ErrorResp(400, "Query is required")]
                  /\ UNCHANGED rcalls
             ELSE IF ~env.AI
             THEN /\ rpc' = [rpc EXCEPT ![r] = "done"]
                  /\ rresp' = [rresp EXCEPT ![r] =
                                 ErrorResp(500, "AI service not configured")]
                  /\ UNCHANGED rcalls
             ELSE /\ rcalls' = [rcalls EXCEPT ![r] =
                        <<Pending(researchSteps(query)[1].role, StepMessages(c, 1))>>]
                  /\ rpc' = [rpc EXCEPT ![r] = "phase"]
                  /\ UNCHANGED rresp
    /\ UNCHANGED <<now, kbVars, agentVars, pageVars, clientVars,
                   env, deploy, blogVars>>

\* part_003 78-104: after a phase call has returned or thrown, issue the next
\* phase call, or after the third the final call
NextCall(r, c, outcome, text) ==
    /\ IF c.step < 3
       THEN /\ rctx' = [rctx EXCEPT ![r] = [c EXCEPT !.step = @ + 1]]
            /\ rcalls' = [rcalls EXCEPT ![r] = Append(Settle(@, outcome, text),
                  Pending(researchSteps(c.query)[c.step + 1].role,
                          StepMessages(c, c.step + 1)))]
            /\ UNCHANGED rpc
       ELSE /\ rctx' = [rctx EXCEPT ![r] = c]
            /\ rcalls' = [rcalls EXCEPT ![r] = Append(Settle(@, outcome, text),
                  Pending(FinalReport, FinalMessages(c)))]
            /\ rpc' = [rpc EXCEPT ![r] = "final"]
    /\ UNCHANGED rresp

\* mutant of ResearchStepReturn: a failed phase aborts the request
ResearchStepReturn_abort(r) ==
    /\ rpc[r] = "phase"
    /\ \/ \E text \in PhaseTexts :
             NextCall(r, [rctx[r] EXCEPT !.findings = Append(@,
                 [step |-> researchSteps(rctx[r].query)[rctx[r].step].role,
                  content |-> text])], "ok", text)
       \/ /\ rpc' = [rpc EXCEPT ![r] = "done"]
          /\ rresp' = [rresp EXCEPT ![r] = ErrorResp(500, "phase failed")]
          /\ rcalls' = [rcalls EXCEPT ![r] = Settle(@, "fail", <<>>)]
          /\ UNCHANGED rctx
    /\ UNCHANGED <<now, kbVars, agentVars, pageVars, clientVars,
                   env, deploy, blogVars>>

\* mutant of ResearchStepReturn: a failed phase leaves an empty finding
ResearchStepReturn_emptyFinding(r) ==
    /\ rpc[r] = "phase"
    /\ \/ \E text \in PhaseTexts :
             NextCall(r, [rctx[r] EXCEPT !.findings = Append(@,
                 [step |-> researchSteps(rctx[r].query)[rctx[r].step].role,
                  content |-> text])], "ok", text)
       \/ NextCall(r, [rctx[r] EXCEPT !.findings = Append(@,
                 [step |-> researchSteps(rctx[r].query)[rctx[r].step].role,
                  content |-> <<>>])], "fail", <<>>)
    /\ UNCHANGED <<now, kbVars, agentVars, pageVars, clientVars,
                   env, deploy, blogVars>>

\* part_003 78-94: a phase call returns (its text, or '' without one, is
\* pushed onto findings) or throws (logged, nothing pushed)
ResearchStepReturn(r) ==
    /\ rpc[r] = "phase"
    /\ \/ \E text \in PhaseTexts :
             NextCall(r, [rctx[r] EXCEPT !.findings = Append(@,
                 [step |-> researchSteps(rctx[r].query)[rctx[r].step].role,
                  content |-> text])], "ok", text)
       \/ NextCall(r, rctx[r], "fail", <<>>)
    /\ UNCHANGED <<now, kbVars, agentVars, pageVars, clientVars,
                   env, deploy, blogVars>>

\* the body of a successful research response
Report(c, text) ==
    [tag |-> "report", success |-> TRUE,
     title |-> <<"Research Report: ">> \o c.query,
     content |-> IF text # <<>> THEN text ELSE <<"Research completed">>,
     type |-> c.type,
     sources |-> [i \in 1..Len(c.findings) |-> c.findings[i].step]]

\* mutant of ResearchFinalReturn: a failed final call yields a default report
ResearchFinalReturn_defaultReport(r) ==
    /\ rpc[r] = "final"
    /\ \/ \E text \in FinalTexts :
             /\ rresp' = [rresp EXCEPT ![r] =
                            [status |-> 200, body |-> Report(rctx[r], text)]]
             /\ rcalls' = [rcalls EXCEPT ![r] = Settle(@, "ok", text)]
       \/ /\ rresp' = [rresp EXCEPT ![r] =
                            [status |-> 200, body |-> Report(rctx[r], <<>>)]]
          /\ rcalls' = [rcalls EXCEPT ![r] = Settle(@, "fail", <<>>)]
    /\ rpc' = [rpc EXCEPT ![r] = "done"]
    /\ UNCHANGED <<now, kbVars, agentVars, pageVars, clientVars,
                   env, deploy, rctx, blogVars>>

\* part_003 99-119: the final call returns (the report) or throws (caught by
\* the handler's catch: success false, status 500)
ResearchFinalReturn(r) ==
    /\ rpc[r] = "final"
    /\ \/ \E text \in FinalTexts :
             /\ rresp' = [rresp EXCEPT ![r] =
                            [status |-> 200, body |-> Report(rctx[r], text)]]
             /\ rcalls' = [rcalls EXCEPT ![r] = Settle(@, "ok", text)]
       \/ /\ rresp' = [rresp EXCEPT ![r] = ErrorResp(500, "generation failed")]
          /\ rcalls' = [rcalls EXCEPT ![r] = Settle(@, "fail", <<>>)]
    /\ rpc' = [rpc EXCEPT ![r] = "done"]
    /\ UNCHANGED <<now, kbVars, agentVars, pageVars, clientVars,
                   env, deploy, rctx, blogVars>>

ResearchInit ==
    /\ now = 0
    /\ db = FreshDb /\ vecs = <<>>
    /\ HandlersIdle
    /\ env \in ResearchEnvs
    /\ deploy = [posts |-> "part_000"]
    /\ ResearchIdle
    /\ BlogIdle
    /\ ClientIdle
    /\ AgentIdle
    /\ PageIdle

ResearchNext ==
    \/ \E r \in Runs, q \in ResearchQueries, t \in ResearchTypes : Research(r, q, t)
    \/ \E r \in Runs : ResearchStepReturn(r)
    \/ \E r \in Runs : ResearchFinalReturn(r)

ResearchSpec == ResearchInit /\ [][ResearchNext]_vars

\* ============================================================== blog posts
\* GET /api/blog/posts (unnamed/part_000 627-752, short version part_001),
\* POST /api/blog/generate (functions/api/blog/generate.js 88-276) and the
\* scheduled generator (src/workers/blog-generator.js 7-80).
\* A generated id `post_${Date.now()}` is modelled by the clock value.
WelcomeId == 100       \* 'post_welcome' of seed.sql
ListLimit == 50        \* LIMIT 50
CacheTtl == 300        \* expirationTtl: 300
PostsHandlers == {"part_000", "part_001"}
CreationKinds == {"generate", "scheduled"}
BlogEnvs == {[AllBound EXCEPT !.DB = d, !.BLOG_CACHE = k] : d, k \in BOOLEAN}

\* what JSON.parse makes of a text of the generator: an object with its title
\* and content properties (undefined when the property is missing), the
\* value null, or a SyntaxError
JsonObject(title, content) == [kind |-> "object", title |-> title, content |-> content]
JsonNull == [kind |-> "null", title |-> undefined, content |-> undefined]
JsonInvalid == [kind |-> "invalid", title |-> undefined, content |-> undefined]

\* answers of the text generator: the response text and its reading as JSON.
\* An object with title and content, an object lacking the title, the JSON
\* value null, a text that is not JSON, and the empty response
AiOutputs == {[response |-> <<"j1">>, json |-> JsonObject(<<"t">>, <<"c">>)],
              [response |-> <<"j2">>, json |-> JsonObject(undefined, <<"c">>)],
              [response |-> <<"null">>, json |-> JsonNull],
              [response |-> <<"x">>, json |-> JsonInvalid],
              [response |-> <<>>, json |-> JsonInvalid]}

\* the default structure around the raw text
Fallback(title, out) ==
    [throws |-> FALSE, title |-> title,
     content |-> IF Falsy(out.response) THEN <<"Generated content">> ELSE out.response]

\* generate.js 155-177: parse aiResponse.response, or the serialized answer
\* object when the response is empty; an answer that does not parse, or
\* lacks a title or a content, is replaced by the default structure
PostData_generate(out) ==
    LET parsed == IF Falsy(out.response) THEN JsonObject(undefined, undefined)
                  ELSE out.json
    IN  IF /\ parsed.kind = "object"
           /\ ~Falsy(parsed.title)
           /\ ~Falsy(parsed.content)
        THEN [throws |-> FALSE, title |-> parsed.title, content |-> parsed.content]
        ELSE Fallback(<<"AI-Generated Blog Post">>, out)

\* blog-generator.js 44-53, 61-63: parse aiResponse.response; only a text that
\* does not parse is replaced by the default structure, the properties of a
\* parsed value are read as they are (reading them off null throws)
PostData_scheduled(out) ==
    LET parsed == IF out.response = <<>> THEN JsonInvalid ELSE out.json
    IN  CASE parsed.kind = "invalid" -> Fallback(<<"Insights on ", "topic">>, out)
          [] parsed.kind = "null" ->
               [throws |-> TRUE, title |-> undefined, content |-> undefined]
          [] OTHER ->
               [throws |-> FALSE, title |-> parsed.title, content |-> parsed.content]

\* the post data a creation handler derives from the generator's answer
PostData(kind, out) ==
    IF kind = "generate" THEN PostData_generate(out) ELSE PostData_scheduled(out)

PostRow(id, title, content, created_at) ==
    [id |-> id, title |-> title, content |-> content, status |-> "published",
     created_at |-> created_at]
\* seed.sql (part_009 5-39), written before any request
SeededPosts ==
    <<PostRow(WelcomeId, <<"Welcome to CloudCurio">>, <<"w">>, -1)>>
PostIds(tbl) == {tbl[i].id : i \in 1..Len(tbl)}

\* ORDER BY created_at DESC: position of the newest row, the earliest
\* inserted one among equals
Newest(rows) ==
    CHOOSE i \in 1..Len(rows) :
        /\ \A j \in 1..Len(rows) : rows[j].created_at <= rows[i].created_at
        /\ \A j \in 1..(i - 1) : rows[j].created_at < rows[i].created_at
Without(rows, i) == SubSeq(rows, 1, i - 1) \o SubSeq(rows, i + 1, Len(rows))
RECURSIVE NewestFirst(_)
NewestFirst(rows) ==
    IF rows = <<>> THEN <<>>
    ELSE <<rows[Newest(rows)]>> \o NewestFirst(Without(rows, Newest(rows)))
RECURSIVE Published(_)
Published(tbl) ==
    IF tbl = <<>> THEN <<>>
    ELSE (IF Head(tbl).status = "published" THEN <<Head(tbl)>> ELSE <<>>)
         \o Published(Tail(tbl))

\* the SELECT without its LIMIT
SelectPublished_noLimit(tbl) ==
    LET sorted == NewestFirst(Published(tbl))
    IN [i \in 1..Len(sorted) |-> [id |-> sorted[i].id, title |-> sorted[i].title,
                                  date |-> sorted[i].created_at,
                                  status |-> sorted[i].status]]

\* part_000 674-689: SELECT id, title, ..., created_at as date ... WHERE
\* status = 'published' ORDER BY created_at DESC LIMIT 50
SelectPublished(tbl) ==
    LET sorted == NewestFirst(Published(tbl))
        n == IF Len(sorted) < ListLimit THEN Len(sorted) ELSE ListLimit
    IN [i \in 1..n |-> [id |-> sorted[i].id, title |-> sorted[i].title,
                        date |-> sorted[i].created_at,
                        status |-> sorted[i].status]]

\* another blog request may arrive
BlogCanStart ==
    Cardinality({l \in Listers : lpc[l] # "idle"}) +
    Cardinality({c \in Creators : cpc[c] # "idle"}) < MaxBlogRequests

\* a Response carrying the JSON array of posts
PostsResp(list, xcache) ==
    [status |-> 200, body |-> [tag |-> "posts", posts |-> list],
     xcache |-> xcache]
LFinish(l, r, events) ==
    /\ lpc' = [lpc EXCEPT ![l] = "done"]
    /\ lresp' = [lresp EXCEPT ![l] = r]
    /\ lcalls' = [lcalls EXCEPT ![l] = @ \o events]

\* part_000 665-689: without a DB binding answer [], else issue the SELECT
ListQuery(l, events) ==
    IF ~env.DB
    THEN LFinish(l, PostsResp(<<>>, "none"), events)
    ELSE /\ lpc' = [lpc EXCEPT ![l] = "list_select"]
         /\ lcalls' = [lcalls EXCEPT ![l] = @ \o events \o <<"db.select">>]
         /\ UNCHANGED lresp

\* mutant of BlogList: a deployment without the cache binding is refused
BlogList_requireCache(l) ==
    /\ lpc[l] = "idle"
    /\ BlogCanStart
    /\ lctx' = [lctx EXCEPT ![l] = [kind |-> "list", after |-> created,
                                    posts |-> <<>>]]
    /\ IF env.BLOG_CACHE
       THEN /\ lpc' = [lpc EXCEPT ![l] = "list_get"]
            /\ lcalls' = [lcalls EXCEPT ![l] = <<"cache.get">>]
            /\ UNCHANGED lresp
       ELSE LFinish(l, ErrorResp(500, "cache not configured"), <<>>)
    /\ UNCHANGED <<now, kbVars, agentVars, pageVars, clientVars,
                   env, deploy, researchVars, posts, cache,
                   cpc, cctx, ccalls, cresp, created>>

\* part_000 627-665 (part_001 2-18): with a cache binding read the cache
\* first, else go to the database
BlogList(l) ==
    /\ lpc[l] = "idle"
    /\ BlogCanStart
    /\ lctx' = [lctx EXCEPT ![l] = [kind |-> "list", after |-> created,
                                    posts |-> <<>>]]
    /\ IF env.BLOG_CACHE
       THEN /\ lpc' = [lpc EXCEPT ![l] = "list_get"]
            /\ lcalls' = [lcalls EXCEPT ![l] = <<"cache.get">>]
            /\ UNCHANGED lresp
       ELSE ListQuery(l, <<>>)
    /\ UNCHANGED <<now, kbVars, agentVars, pageVars, clientVars,
                   env, deploy, researchVars, posts, cache,
                   cpc, cctx, ccalls, cresp, created>>

\* a handler that goes on to the database whatever the cache read returned
ListGetReturn_alwaysQuery(l) ==
    /\ lpc[l] = "list_get"
    /\ \/ ListQuery(l, <<IF cache.present THEN "cache.get.hit" ELSE "cache.get.miss">>)
       \/ ListQuery(l, <<"cache.get.fail">>)
    /\ UNCHANGED <<now, kbVars, agentVars, pageVars, clientVars,
                   env, deploy, researchVars, posts, cache, lctx,
                   cpc, cctx, ccalls, cresp, created>>

\* part_000 642-663 (part_001 7-12): the cache read returns a value (answer
\* with it), returns null, or throws (part_000: logged, go on to the
\* database; part_001: status 500)
ListGetReturn(l) ==
    /\ lpc[l] = "list_get"
    /\ \/ IF cache.present
          THEN LFinish(l, PostsResp(cache.value, "HIT"), <<"cache.get.hit">>)
          ELSE ListQuery(l, <<"cache.get.miss">>)
       \/ IF deploy.posts = "part_000"
          THEN ListQuery(l, <<"cache.get.fail">>)
          ELSE LFinish(l, ErrorResp(500, "cache read failed"), <<"cache.get.fail">>)
    /\ UNCHANGED <<now, kbVars, agentVars, pageVars, clientVars,
                   env, deploy, researchVars, posts, cache, lctx,
                   cpc, cctx, ccalls, cresp, created>>

\* a handler that answers with the rows without writing them to the cache
ListSelectReturn_skipPut(l) ==
    /\ lpc[l] = "list_select"
    /\ \/ /\ lctx' = [lctx EXCEPT ![l].posts = SelectPublished(posts)]
          /\ LFinish(l, PostsResp(SelectPublished(posts), "MISS"), <<"db.select.ok">>)
       \/ /\ LFinish(l, ErrorResp(500, "query failed"), <<"db.select.fail">>)
          /\ UNCHANGED lctx
    /\ UNCHANGED <<now, kbVars, agentVars, pageVars, clientVars,
                   env, deploy, researchVars, posts, cache,
                   cpc, cctx, ccalls, cresp, created>>

\* part_000 689-717 (part_001 20-35): the SELECT returns; with a cache
\* binding write the list to the cache (part_000: only a non-empty list)
ListSelectReturn(l) ==
    /\ lpc[l] = "list_select"
    /\ \/ LET list == SelectPublished(posts)
          IN /\ lctx' = [lctx EXCEPT ![l].posts = list]
             /\ IF env.BLOG_CACHE /\ (deploy.posts = "part_001" \/ Len(list) > 0)
                THEN /\ lpc' = [lpc EXCEPT ![l] = "list_put"]
                     /\ lcalls' = [lcalls EXCEPT ![l] =
                                     @ \o <<"db.select.ok", "cache.put">>]
                     /\ UNCHANGED lresp
                ELSE LFinish(l, PostsResp(list, "MISS"), <<"db.select.ok">>)
       \/ /\ LFinish(l, ErrorResp(500, "query failed"), <<"db.select.fail">>)
          /\ UNCHANGED lctx
    /\ UNCHANGED <<now, kbVars, agentVars, pageVars, clientVars,
                   env, deploy, researchVars, posts, cache,
                   cpc, cctx, ccalls, cresp, created>>

\* part_000 703-730 (part_001 31-37): the cache write returns or throws
\* (part_000: logged; part_001: status 500); answer with the list
ListPutReturn(l) ==
    /\ lpc[l] = "list_put"
    /\ \/ /\ cache' = [present |-> TRUE, value |-> lctx[l].posts, ttl |-> CacheTtl]
          /\ LFinish(l, PostsResp(lctx[l].posts, "MISS"), <<"cache.put.ok">>)
       \/ /\ UNCHANGED cache
          /\ IF deploy.posts = "part_000"
             THEN LFinish(l, PostsResp(lctx[l].posts, "MISS"), <<"cache.put.fail">>)
             ELSE LFinish(l, ErrorResp(500, "cache write failed"), <<"cache.put.fail">>)
    /\ UNCHANGED <<now, kbVars, agentVars, pageVars, clientVars,
                   env, deploy, researchVars, posts, lctx,
                   cpc, cctx, ccalls, cresp, created>>

\* the entry's TTL has elapsed: the key is gone
CacheExpire ==
    /\ cache.present
    /\ cache' = NoEntry
    /\ UNCHANGED <<now, kbVars, agentVars, pageVars, clientVars,
                   env, deploy, researchVars, posts,
                   lpc, lctx, lcalls, lresp, cpc, cctx, ccalls, cresp, created>>

\* generate.js 243-252: {success: true, postId, title, ...}
GeneratedResp(c) ==
    [status |-> 200, body |-> [tag |-> "generated", postId |-> c.postId,
                               title |-> c.postData.title]]
\* the creation ends: the endpoint answers r, the scheduled run returns nothing
CFinish(c, handler, r, events) ==
    /\ cpc' = [cpc EXCEPT ![c] = "done"]
    /\ cresp' = [cresp EXCEPT ![c] = IF handler = "generate" THEN r ELSE NoResp]
    /\ ccalls' = [ccalls EXCEPT ![c] = @ \o events]

\* generate.js 88-142, blog-generator.js 7-42: check the bindings, issue the
\* generator call
BlogGenerate(c, kind) ==
    /\ cpc[c] = "idle"
    /\ BlogCanStart
    /\ cctx' = [cctx EXCEPT ![c] = [kind |-> "create", handler |-> kind,
                   postData |-> [throws |-> FALSE, title |-> <<>>, content |-> <<>>],
                   postId |-> -1, timestamp |-> -1]]
    /\ IF ~env.AI \/ ~env.DB
       THEN CFinish(c, kind, ErrorResp(500, "AI or Database not configured"), <<>>)
       ELSE /\ cpc' = [cpc EXCEPT ![c] = "gen_ai"]
            /\ ccalls' = [ccalls EXCEPT ![c] = <<"ai.run">>]
            /\ UNCHANGED cresp
    /\ UNCHANGED <<now, kbVars, agentVars, pageVars, clientVars,
                   env, deploy, researchVars, posts, cache,
                   lpc, lctx, lcalls, lresp, created>>

\* generate.js 143-208, blog-generator.js 37-68: the generator call returns
\* (parse, take the id and timestamp from the clock, issue the INSERT) or
\* throws
GenAiReturn(c) ==
    /\ cpc[c] = "gen_ai"
    /\ \/ \E out \in AiOutputs :
             LET data == PostData(cctx[c].handler, out)
             IN  /\ cctx' = [cctx EXCEPT ![c].postData = data,
                                         ![c].postId = now, ![c].timestamp = now]
                 /\ IF data.throws
                    THEN CFinish(c, cctx[c].handler,
                                 ErrorResp(500, "Failed to generate blog post"),
                                 <<"ai.run.ok">>)
                    ELSE /\ cpc' = [cpc EXCEPT ![c] = "gen_insert"]
                         /\ ccalls' = [ccalls EXCEPT ![c] =
                                         @ \o <<"ai.run.ok", "db.insert">>]
                         /\ UNCHANGED cresp
       \/ /\ UNCHANGED cctx
          /\ CFinish(c, cctx[c].handler, ErrorResp(500, "Failed to generate blog post"),
                     <<"ai.run.fail">>)
    /\ UNCHANGED <<now, kbVars, agentVars, pageVars, clientVars,
                   env, deploy, researchVars, posts, cache,
                   lpc, lctx, lcalls, lresp, created>>

\* a handler that deletes the cache key also after a failed INSERT
GenInsertReturn_deleteAnyway(c) ==
    /\ cpc[c] = "gen_insert"
    /\ \/ /\ cctx[c].postId \notin PostIds(posts)
          /\ cctx[c].postData.title # undefined
          /\ cctx[c].postData.content # undefined
          /\ posts' = Append(posts, PostRow(cctx[c].postId, cctx[c].postData.title,
                                cctx[c].postData.content, cctx[c].timestamp))
          /\ ccalls' = [ccalls EXCEPT ![c] = @ \o <<"db.insert.ok", "cache.delete">>]
       \/ /\ UNCHANGED posts
          /\ ccalls' = [ccalls EXCEPT ![c] = @ \o <<"db.insert.fail", "cache.delete">>]
    /\ cpc' = [cpc EXCEPT ![c] = "gen_delete"]
    /\ UNCHANGED <<now, kbVars, agentVars, pageVars, clientVars,
                   env, deploy, researchVars, cache,
                   lpc, lctx, lcalls, lresp, cctx, cresp, created>>

\* generate.js 196-225, blog-generator.js 57-75: the INSERT returns (with a
\* cache binding issue the delete, else the creation is complete) or throws,
\* as it must when the id is already in the table (id TEXT PRIMARY KEY) or
\* the title or the content is missing (title, content TEXT NOT NULL)
GenInsertReturn(c) ==
    /\ cpc[c] = "gen_insert"
    /\ \/ /\ cctx[c].postId \notin PostIds(posts)
          /\ cctx[c].postData.title # undefined
          /\ cctx[c].postData.content # undefined
          /\ posts' = Append(posts, PostRow(cctx[c].postId, cctx[c].postData.title,
                                cctx[c].postData.content, cctx[c].timestamp))
          /\ UNCHANGED cctx
          /\ IF env.BLOG_CACHE
             THEN /\ cpc' = [cpc EXCEPT ![c] = "gen_delete"]
                  /\ ccalls' = [ccalls EXCEPT ![c] =
                                  @ \o <<"db.insert.ok", "cache.delete">>]
                  /\ UNCHANGED <<cresp, created>>
             ELSE /\ CFinish(c, cctx[c].handler, GeneratedResp(cctx[c]), <<"db.insert.ok">>)
                  /\ created' = created \cup {cctx[c].postId}
       \/ /\ UNCHANGED <<posts, cctx, created>>
          /\ CFinish(c, cctx[c].handler, ErrorResp(500, "Failed to generate blog post"),
                     <<"db.insert.fail">>)
    /\ UNCHANGED <<now, kbVars, agentVars, pageVars, clientVars,
                   env, deploy, researchVars, cache,
                   lpc, lctx, lcalls, lresp>>

\* a handler in which a failed cache delete fails the request
GenDeleteReturn_failRequest(c) ==
    /\ cpc[c] = "gen_delete"
    /\ \/ /\ cache' = NoEntry
          /\ CFinish(c, cctx[c].handler, GeneratedResp(cctx[c]), <<"cache.delete.ok">>)
       \/ /\ UNCHANGED cache
          /\ CFinish(c, cctx[c].handler, ErrorResp(500, "Failed to generate blog post"),
                     <<"cache.delete.fail">>)
    /\ created' = created \cup {cctx[c].postId}
    /\ UNCHANGED <<now, kbVars, agentVars, pageVars, clientVars,
                   env, deploy, researchVars, posts, cctx,
                   lpc, lctx, lcalls, lresp>>

\* generate.js 217-252, blog-generator.js 73-79: the delete of the cache key
\* returns or throws (logged); the post is stored and the creation complete
GenDeleteReturn(c) ==
    /\ cpc[c] = "gen_delete"
    /\ \/ /\ cache' = NoEntry
          /\ CFinish(c, cctx[c].handler, GeneratedResp(cctx[c]), <<"cache.delete.ok">>)
       \/ /\ UNCHANGED cache
          /\ CFinish(c, cctx[c].handler, GeneratedResp(cctx[c]), <<"cache.delete.fail">>)
    /\ created' = created \cup {cctx[c].postId}
    /\ UNCHANGED <<now, kbVars, agentVars, pageVars, clientVars,
                   env, deploy, researchVars, posts, cctx,
                   lpc, lctx, lcalls, lresp>>

\* the creations of the blog system: creation 1 is a request of POST
\* /api/blog/generate, the others are runs of the scheduled worker
HandlerOf(c) == IF c = 1 THEN "generate" ELSE "scheduled"

BlogInit ==
    /\ now = 0
    /\ db = FreshDb /\ vecs = <<>>
    /\ HandlersIdle
    /\ env \in BlogEnvs
    /\ deploy \in [posts : PostsHandlers]
    /\ ResearchIdle
    /\ ClientIdle
    /\ AgentIdle
    /\ PageIdle
    /\ posts \in {<<>>, SeededPosts}
    /\ cache = NoEntry
    /\ HandlersOfBlogIdle

BlogNext ==
    \/ Tick
    \/ \E l \in Listers : BlogList(l)
    \/ \E l \in Listers : ListGetReturn(l)
    \/ \E l \in Listers : ListSelectReturn(l)
    \/ \E l \in Listers : ListPutReturn(l)
    \/ CacheExpire
    \/ \E c \in Creators : BlogGenerate(c, HandlerOf(c))
    \/ \E c \in Creators : GenAiReturn(c)
    \/ \E c \in Creators : GenInsertReturn(c)
    \/ \E c \in Creators : GenDeleteReturn(c)

BlogSpec == BlogInit /\ [][BlogNext]_vars

\* =========================================== the list over a long table
\* tables of n posts created one after the other at the times 1..n (two per
\* tick when tied), some of them drafts
TableSizes == {0, 1, 3, 50, 51, 53}
TableShapes == {"published", "newestDraft", "thirdDraft", "tied"}
LongTable(n, shape) ==
    [i \in 1..n |->
        [PostRow(i, <<"t">>, <<"c">>, IF shape = "tied" THEN (i + 1) \div 2 ELSE i)
           EXCEPT !.status = IF \/ shape = "newestDraft" /\ i = n
                                \/ shape = "thirdDraft" /\ i % 3 = 0
                             THEN "draft" ELSE "published"]]
LongTables == {LongTable(n, shape) : n \in TableSizes, shape \in TableShapes}

ListInit ==
    /\ now = 0
    /\ db = FreshDb /\ vecs = <<>>
    /\ HandlersIdle
    /\ env = AllBound
    /\ deploy \in [posts : PostsHandlers]
    /\ ResearchIdle
    /\ ClientIdle
    /\ AgentIdle
    /\ PageIdle
    /\ posts \in LongTables
    /\ cache = NoEntry
    /\ HandlersOfBlogIdle

ListNext ==
    \/ \E l \in Listers : BlogList(l)
    \/ \E l \in Listers : ListGetReturn(l)
    \/ \E l \in Listers : ListSelectReturn(l)
    \/ \E l \in Listers : ListPutReturn(l)
    \/ CacheExpire

ListSpec == ListInit /\ [][ListNext]_vars

\* =============================================== the research agent worker
\* deliveries of the research queue to the worker
MaxDeliveries == 2
\* message.body of the message of task t
TaskMessage(t) == [taskId |-> t, query |-> <<"q">>, type |-> "quick"]
\* the batches the queue delivers: messages of tasks not acknowledged yet,
\* each at most once in a batch
AgentBatches(unacked) ==
    {<<TaskMessage(t)>> : t \in unacked}
      \cup {<<TaskMessage(p[1]), TaskMessage(p[2])>> :
              p \in {q \in unacked \X unacked : q[1] # q[2]}}
\* part_005 239-243
researchPhases == <<"exploration", "analysis", "synthesis">>
\* what a model call answers with: response.response is a text or missing
AgentOutputs == {<<"r">>, undefined}
\* error.message of a rejected model call, of a rejected statement
AiError == <<"ai", "failed">>
DbError == <<"db", "failed">>

\* part_005 225-236: the next message of the batch is taken up and the
\* UPDATE to 'processing' issued; after the last one queue() returns
AgentMessage(i, log) ==
    /\ aqi' = i
    /\ IF i <= Len(abatch')
       THEN /\ apc' = "a_processing"
            /\ actx' = [kind |-> "task", taskId |-> abatch'[i].taskId, phase |-> 0,
                        findings |-> <<>>, report |-> undefined, error |-> <<>>]
            /\ alog' = Append(log, <<"update.processing">>)
       ELSE /\ apc' = "returned"
            /\ actx' = NoAgentCtx
            /\ alog' = log

\* part_005 288-296: the catch block issues the UPDATE to 'failed'
AgentCatch(message, event) ==
    /\ apc' = "a_failed"
    /\ actx' = [actx EXCEPT !.error = message]
    /\ alog' = [alog EXCEPT ![aqi] = @ \o <<event, "update.failed">>]
    /\ UNCHANGED <<tasks, abatch, aqi, asettled, adelivered>>

\* the queue delivers a batch: queue(batch, env) is called
AgentQueue(b) ==
    /\ apc \in {"idle", "returned", "rejected"}
    /\ adelivered < MaxDeliveries
    /\ adelivered' = adelivered + 1
    /\ abatch' = b
    /\ asettled' = [i \in 1..Len(b) |-> "none"]
    /\ AgentMessage(1, <<>>)
    /\ UNCHANGED <<now, kbVars, env, deploy, researchVars, blogVars, clientVars,
                   pageVars, tasks>>

\* part_005 232-256: the UPDATE to 'processing' returns (the first phase is
\* asked) or throws
AgentProcessingReturn ==
    /\ apc = "a_processing"
    /\ \/ /\ tasks' = [tasks EXCEPT ![actx.taskId].status = "processing"]
          /\ apc' = "a_phase"
          /\ actx' = [actx EXCEPT !.phase = 1]
          /\ alog' = [alog EXCEPT ![aqi] = @ \o <<"update.processing.ok", "ai.phase">>]
          /\ UNCHANGED <<abatch, aqi, asettled, adelivered>>
       \/ AgentCatch(DbError, "update.processing.fail")
    /\ UNCHANGED <<now, kbVars, env, deploy, researchVars, blogVars, clientVars,
                   pageVars>>

\* part_005 247-272: the model call of a phase returns (its finding is
\* kept; the next phase, or after the last one the final report, is asked)
\* or throws
AgentPhaseReturn ==
    /\ apc = "a_phase"
    /\ \/ \E out \in AgentOutputs :
             /\ actx' = [actx EXCEPT
                           !.findings = Append(@, IF Falsy(out) THEN <<>> ELSE out),
                           !.phase = @ + 1]
             /\ IF actx.phase < Len(researchPhases)
                THEN /\ apc' = "a_phase"
                     /\ alog' = [alog EXCEPT ![aqi] = @ \o <<"ai.phase.ok", "ai.phase">>]
                ELSE /\ apc' = "a_final"
                     /\ alog' = [alog EXCEPT ![aqi] = @ \o <<"ai.phase.ok", "ai.final">>]
             /\ UNCHANGED <<tasks, abatch, aqi, asettled, adelivered>>
       \/ AgentCatch(AiError, "ai.phase.fail")
    /\ UNCHANGED <<now, kbVars, env, deploy, researchVars, blogVars, clientVars,
                   pageVars>>

\* part_005 267-283: the model call for the final report returns (the UPDATE
\* to 'completed' with finalReport.response is issued) or throws
AgentFinalReturn ==
    /\ apc = "a_final"
    /\ \/ \E out \in AgentOutputs :
             /\ actx' = [actx EXCEPT !.report = out]
             /\ apc' = "a_completed"
             /\ alog' = [alog EXCEPT ![aqi] = @ \o <<"ai.final.ok", "update.completed">>]
             /\ UNCHANGED <<tasks, abatch, aqi, asettled, adelivered>>
       \/ AgentCatch(AiError, "ai.final.fail")
    /\ UNCHANGED <<now, kbVars, env, deploy, researchVars, blogVars, clientVars,
                   pageVars>>

\* part_005 275-300: the UPDATE to 'completed' returns (the message is
\* acknowledged, the next one taken up) or throws
AgentCompletedReturn ==
    /\ apc = "a_completed"
    /\ \/ /\ tasks' = [tasks EXCEPT ![actx.taskId] =
                          [status |-> "completed", result |-> actx.report]]
          /\ asettled' = [asettled EXCEPT ![aqi] = "acked"]
          /\ UNCHANGED <<abatch, adelivered>>
          /\ AgentMessage(aqi + 1,
                          [alog EXCEPT ![aqi] = @ \o <<"update.completed.ok", "ack">>])
       \/ AgentCatch(DbError, "update.completed.fail")
    /\ UNCHANGED <<now, kbVars, env, deploy, researchVars, blogVars, clientVars,
                   pageVars>>

\* an agent that records a failure as the completion of the task
AgentFailedReturn_completes ==
    /\ apc = "a_failed"
    /\ \/ /\ tasks' = [tasks EXCEPT ![actx.taskId] =
                          [status |-> "completed", result |-> actx.error]]
          /\ asettled' = [asettled EXCEPT ![aqi] = "retried"]
          /\ UNCHANGED <<abatch, adelivered>>
          /\ AgentMessage(aqi + 1,
                          [alog EXCEPT ![aqi] = @ \o <<"update.failed.ok", "retry">>])
       \/ /\ apc' = "rejected"
          /\ alog' = [alog EXCEPT ![aqi] = Append(@, "update.failed.fail")]
          /\ UNCHANGED <<tasks, actx, abatch, aqi, asettled, adelivered>>
    /\ UNCHANGED <<now, kbVars, env, deploy, researchVars, blogVars, clientVars,
                   pageVars>>

\* part_005 288-300: the UPDATE to 'failed' of the catch block returns (the
\* message is marked for retry, the next one taken up) or throws: the
\* exception leaves the for loop and queue() rejects
AgentFailedReturn ==
    /\ apc = "a_failed"
    /\ \/ /\ tasks' = [tasks EXCEPT ![actx.taskId] =
                          [status |-> "failed", result |-> actx.error]]
          /\ asettled' = [asettled EXCEPT ![aqi] = "retried"]
          /\ UNCHANGED <<abatch, adelivered>>
          /\ AgentMessage(aqi + 1,
                          [alog EXCEPT ![aqi] = @ \o <<"update.failed.ok", "retry">>])
       \/ /\ apc' = "rejected"
          /\ alog' = [alog EXCEPT ![aqi] = Append(@, "update.failed.fail")]
          /\ UNCHANGED <<tasks, actx, abatch, aqi, asettled, adelivered>>
    /\ UNCHANGED <<now, kbVars, env, deploy, researchVars, blogVars, clientVars,
                   pageVars>>

\* the ids of the tasks whose message was acknowledged
AckedTasks == {t \in TaskIds : tasks[t].status = "completed"}

AgentInit ==
    /\ now = 0
    /\ db = FreshDb /\ vecs = <<>>
    /\ HandlersIdle
    /\ env = AllBound
    /\ deploy = [posts |-> "part_000"]
    /\ ResearchIdle
    /\ BlogIdle
    /\ ClientIdle
    /\ AgentIdle
    /\ PageIdle

AgentNext ==
    \/ \E b \in AgentBatches(TaskIds \ AckedTasks) : AgentQueue(b)
    \/ AgentProcessingReturn
    \/ AgentPhaseReturn
    \/ AgentFinalReturn
    \/ AgentCompletedReturn
    \/ AgentFailedReturn

AgentSpec == AgentInit /\ [][AgentNext]_vars

\* ================================================ the page: fetchWithRetry
\* src/public/js/app.js, CONFIG
API_TIMEOUT == 30000
RETRY_ATTEMPTS == 3
RETRY_DELAY == 1000
\* the timeout the page passes with POST /api/blog/generate
GenerateTimeout == 60000
\* largest options.retries a call is made with
MaxRetriesOption == 2

\* an optional numeric property of the options object
NotGiven == [given |-> FALSE, value |-> 0]
Given(n) == [given |-> TRUE, value |-> n]

\* property || fallback on numbers: undefined and 0 are falsy
OrDefault(property, fallback) ==
    IF property.given /\ property.value # 0 THEN property.value ELSE fallback

FetchOptions == [retries : {NotGiven} \cup {Given(n) : n \in 0..MaxRetriesOption},
                 timeout : {NotGiven, Given(GenerateTimeout)}]
Statuses == {200, 404, 500}
FetchErrors == {"TypeError", "AbortError"}

RECURSIVE Pow2(_)
Pow2(k) == IF k = 0 THEN 1 ELSE 2 * Pow2(k - 1)

\* entries of the call's history: a fetch issued, a response received, an
\* error caught, a backoff wait of n ms started
FetchEvent(ev, attempt, name, n) ==
    [ev |-> ev, attempt |-> attempt, name |-> name, n |-> n]

\* the head of the for loop with the locals c: the next fetch is issued, or
\* the loop is left and lastError thrown
LoopHead(c, log) ==
    /\ fctx' = c
    /\ IF c.attempt <= c.maxRetries
       THEN /\ fpc' = "fetch"
            /\ flog' = Append(log, FetchEvent("fetch", c.attempt, "", c.timeout))
            /\ fresult' = NoResult
       ELSE /\ fpc' = "thrown"
            /\ flog' = log
            /\ fresult' = [kind |-> "error", status |-> 0, name |-> c.lastError]

\* fetchWithRetry(url, options) is called
FetchWithRetry(options) ==
    /\ fpc = "idle"
    /\ LoopHead([kind |-> "fetch", options |-> options,
                 timeout |-> OrDefault(options.timeout, API_TIMEOUT),
                 maxRetries |-> OrDefault(options.retries, RETRY_ATTEMPTS),
                 attempt |-> 0, lastError |-> "undefined"], flog)
    /\ UNCHANGED <<now, kbVars, agentVars, pageVars, env, deploy, researchVars,
                   blogVars>>

\* a fetchWithRetry that treats a 5xx response as a failed attempt
FetchReturn_retryServerError ==
    /\ fpc = "fetch"
    /\ \E status \in Statuses :
          LET log == Append(flog, FetchEvent("response", fctx.attempt, "", status))
          IN  IF status >= 500 /\ fctx.attempt < fctx.maxRetries
              THEN /\ fpc' = "backoff"
                   /\ flog' = Append(log, FetchEvent("wait", fctx.attempt, "",
                                                      RETRY_DELAY * Pow2(fctx.attempt)))
                   /\ UNCHANGED fresult
              ELSE /\ fpc' = "returned"
                   /\ flog' = log
                   /\ fresult' = [kind |-> "response", status |-> status, name |-> ""]
    /\ UNCHANGED <<now, kbVars, agentVars, pageVars, env, deploy, researchVars,
                   blogVars, fctx>>

\* fetch resolves with a response of any status, which is returned
FetchReturn ==
    /\ fpc = "fetch"
    /\ \E status \in Statuses :
          /\ fresult' = [kind |-> "response", status |-> status, name |-> ""]
          /\ flog' = Append(flog, FetchEvent("response", fctx.attempt, "", status))
    /\ fpc' = "returned"
    /\ UNCHANGED <<now, kbVars, agentVars, pageVars, env, deploy, researchVars,
                   blogVars, fctx>>

\* a catch block that starts the backoff wait after every failed attempt
FetchThrow_alwaysBackoff ==
    /\ fpc = "fetch"
    /\ \E error \in FetchErrors :
          /\ fctx' = [fctx EXCEPT !.lastError = error]
          /\ fpc' = IF fctx.attempt < fctx.maxRetries THEN "backoff" ELSE "thrown"
          /\ flog' = flog \o <<FetchEvent("error", fctx.attempt, error, 0),
                               FetchEvent("wait", fctx.attempt, "",
                                          RETRY_DELAY * Pow2(fctx.attempt))>>
          /\ fresult' = IF fctx.attempt < fctx.maxRetries THEN fresult
                        ELSE [kind |-> "error", status |-> 0, name |-> error]
    /\ UNCHANGED <<now, kbVars, agentVars, pageVars, env, deploy, researchVars,
                   blogVars>>

\* a catch block whose backoff grows linearly
FetchThrow_linearBackoff ==
    /\ fpc = "fetch"
    /\ \E error \in FetchErrors :
          LET c == [fctx EXCEPT !.lastError = error]
              log == Append(flog, FetchEvent("error", fctx.attempt, error, 0))
          IN  IF c.attempt < c.maxRetries
              THEN /\ fctx' = c
                   /\ fpc' = "backoff"
                   /\ flog' = Append(log, FetchEvent("wait", c.attempt, "",
                                                      RETRY_DELAY * (c.attempt + 1)))
                   /\ UNCHANGED fresult
              ELSE LoopHead([c EXCEPT !.attempt = @ + 1], log)
    /\ UNCHANGED <<now, kbVars, agentVars, pageVars, env, deploy, researchVars,
                   blogVars>>

\* fetch rejects (network error, or abort by the timeout timer); before the
\* last attempt the backoff wait is started
FetchThrow ==
    /\ fpc = "fetch"
    /\ \E error \in FetchErrors :
          LET c == [fctx EXCEPT !.lastError = error]
              log == Append(flog, FetchEvent("error", fctx.attempt, error, 0))
          IN  IF c.attempt < c.maxRetries
              THEN /\ fctx' = c
                   /\ fpc' = "backoff"
                   /\ flog' = Append(log, FetchEvent("wait", c.attempt, "",
                                                      RETRY_DELAY * Pow2(c.attempt)))
                   /\ UNCHANGED fresult
              ELSE LoopHead([c EXCEPT !.attempt = @ + 1], log)
    /\ UNCHANGED <<now, kbVars, agentVars, pageVars, env, deploy, researchVars,
                   blogVars>>

\* the backoff wait is over: next iteration of the loop
BackoffElapsed ==
    /\ fpc = "backoff"
    /\ LoopHead([fctx EXCEPT !.attempt = @ + 1], flog)
    /\ UNCHANGED <<now, kbVars, agentVars, pageVars, env, deploy, researchVars,
                   blogVars>>

FetchInit ==
    /\ now = 0
    /\ db = FreshDb /\ vecs = <<>>
    /\ HandlersIdle
    /\ env = AllBound
    /\ deploy = [posts |-> "part_000"]
    /\ ResearchIdle
    /\ BlogIdle
    /\ ClientIdle
    /\ AgentIdle
    /\ PageIdle

FetchNext ==
    \/ \E options \in FetchOptions : FetchWithRetry(options)
    \/ FetchReturn
    \/ FetchThrow
    \/ BackoffElapsed

FetchSpec == FetchInit /\ [][FetchNext]_vars

\* every pending fetch settles (response, network error, or abort when the
\* timeout timer fires) and every backoff timer fires
FetchLiveSpec ==
    FetchSpec /\ WF_vars(FetchReturn \/ FetchThrow) /\ WF_vars(BackoffElapsed)

\* ============================================ the page: action handlers
\* the timeout the page passes with POST /api/research
ResearchTimeout == 90000
\* the handlers and the button each one disables
ActionHandlers == {"generateNewPost", "addToKnowledgeBase", "startResearch"}
ButtonOf(handler) ==
    CASE handler = "generateNewPost" -> "generate-post"
      [] handler = "addToKnowledgeBase" -> "add-to-kb"
      [] OTHER -> "start-research"
\* the label the handler shows while its request is in flight
BusyLabel(handler) ==
    CASE handler = "generateNewPost" -> "Generating..."
      [] handler = "addToKnowledgeBase" -> "Adding..."
      [] OTHER -> "Researching..."
\* options.timeout of the handler's fetchWithRetry call
TimeoutOf(handler) ==
    CASE handler = "generateNewPost" -> Given(GenerateTimeout)
      [] handler = "addToKnowledgeBase" -> Given(API_TIMEOUT)
      [] OTHER -> Given(ResearchTimeout)
\* the labels the buttons carry in the markup of the page (public/index.html)
MarkupLabels(b) == {DefaultLabel(b), "Go"}
\* response.ok
Ok(status) == status >= 200 /\ status <= 299
\* what response.json() and the checks on the result lead to
JsonOutcomes == {"success", "failure", "incomplete", "unparsable"}

\* the handler saves the button's state, disables it, shows the busy label
\* and calls fetchWithRetry; before stands for the button as the handler
\* found it
StartAction(handler) ==
    LET b == ButtonOf(handler)
    IN  /\ upc = "idle"
        /\ fpc \in {"idle", "returned", "thrown"}
        /\ uctx' = [kind |-> "action", handler |-> handler, button |-> b,
                    originalText |-> buttons[b].textContent,
                    wasDisabled |-> buttons[b].disabled, before |-> buttons[b]]
        /\ buttons' = [buttons EXCEPT ![b] = Button(TRUE, BusyLabel(handler))]
        /\ upc' = "fetchWithRetry"
        /\ LoopHead([kind |-> "fetch",
                     options |-> [retries |-> NotGiven, timeout |-> TimeoutOf(handler)],
                     timeout |-> OrDefault(TimeoutOf(handler), API_TIMEOUT),
                     maxRetries |-> OrDefault(NotGiven, RETRY_ATTEMPTS),
                     attempt |-> 0, lastError |-> "undefined"], <<>>)

\* app.js 352-381: a click on the Generate button
GenerateNewPost ==
    /\ ~buttons["generate-post"].disabled
    /\ StartAction("generateNewPost")
    /\ UNCHANGED <<now, kbVars, agentVars, env, deploy, researchVars, blogVars, view>>

\* app.js 596-650: a click on the Add button, with or without title and
\* content entered
AddToKnowledgeBase(entered) ==
    /\ ~buttons["add-to-kb"].disabled
    /\ upc = "idle"
    /\ IF entered
       THEN StartAction("addToKnowledgeBase") /\ UNCHANGED view
       ELSE /\ view' = [view EXCEPT !.alert = "validation"]
            /\ UNCHANGED <<buttons, upc, uctx, clientVars>>
    /\ UNCHANGED <<now, kbVars, agentVars, env, deploy, researchVars, blogVars>>

\* app.js 1297-1357: a click on the Start button (control = "start") or on
\* the Try Again button of the error view (control = "retry"), with or
\* without a query entered
StartResearch(control, entered) ==
    /\ IF control = "start" THEN ~buttons["start-research"].disabled
       ELSE view.output = "error"
    /\ upc = "idle"
    /\ IF entered
       THEN /\ StartAction("startResearch")
            /\ view' = [view EXCEPT !.output = "loading"]
       ELSE /\ view' = [view EXCEPT !.alert = "validation"]
            /\ UNCHANGED <<buttons, upc, uctx, clientVars>>
    /\ UNCHANGED <<now, kbVars, agentVars, env, deploy, researchVars, blogVars>>

\* the finally block of the handler
Restored(c) ==
    IF c.handler = "generateNewPost"
    THEN Button(c.wasDisabled, c.originalText)
    ELSE Button(FALSE, c.originalText)
\* the handler ends with success: the finally block runs
ActionSucceeds ==
    /\ buttons' = [buttons EXCEPT ![uctx.button] = Restored(uctx)]
    /\ view' = [output |-> IF uctx.handler = "startResearch" THEN "result"
                           ELSE view.output,
                alert |-> IF uctx.handler = "startResearch" THEN view.alert
                          ELSE "success"]
    /\ upc' = "idle"
    /\ uctx' = NoAction
\* app.js 419-445, 678-696, 1428-1464: the handler ends with an exception:
\* the finally block runs and the catch block reports the failure;
\* startResearch's catch shows the error view and sets the button again
ActionFails ==
    /\ buttons' = [buttons EXCEPT ![uctx.button] =
                      IF uctx.handler = "startResearch"
                      THEN Button(FALSE, "Start Research")
                      ELSE Restored(uctx)]
    /\ view' = [output |-> IF uctx.handler = "startResearch" THEN "error"
                           ELSE view.output,
                alert |-> IF uctx.handler = "startResearch" THEN view.alert
                          ELSE "failure"]
    /\ upc' = "idle"
    /\ uctx' = NoAction

\* app.js 375-391, 643-656, 1353-1366: fetchWithRetry returns (a response
\* that is not ok is thrown, else response.json() is awaited) or throws
ActionFetchSettled ==
    /\ upc = "fetchWithRetry"
    /\ fpc \in {"returned", "thrown"}
    /\ IF fpc = "returned" /\ Ok(fresult.status)
       THEN /\ upc' = "json"
            /\ UNCHANGED <<buttons, uctx, view>>
       ELSE ActionFails
    /\ UNCHANGED <<now, kbVars, agentVars, env, deploy, researchVars, blogVars,
                   clientVars>>

\* app.js 391-417, 656-676, 1366-1426: response.json() returns or throws and
\* the result is checked; generateNewPost then reloads the list of posts
ActionJsonSettled ==
    /\ upc = "json"
    /\ \E outcome \in JsonOutcomes :
          IF outcome = "success"
             \/ (outcome = "incomplete" /\ uctx.handler # "startResearch")
          THEN IF uctx.handler = "generateNewPost"
               THEN /\ upc' = "loadBlogPosts"
                    /\ view' = [view EXCEPT !.alert = "success"]
                    /\ UNCHANGED <<buttons, uctx>>
               ELSE ActionSucceeds
          ELSE ActionFails
    /\ UNCHANGED <<now, kbVars, agentVars, env, deploy, researchVars, blogVars,
                   clientVars>>

\* app.js 406-445: loadBlogPosts() returns or throws
ActionLoadSettled ==
    /\ upc = "loadBlogPosts"
    /\ \/ ActionSucceeds
       \/ ActionFails
    /\ UNCHANGED <<now, kbVars, agentVars, env, deploy, researchVars, blogVars,
                   clientVars>>

PageInit ==
    /\ now = 0
    /\ db = FreshDb /\ vecs = <<>>
    /\ HandlersIdle
    /\ env = AllBound
    /\ deploy = [posts |-> "part_000"]
    /\ ResearchIdle
    /\ BlogIdle
    /\ ClientIdle
    /\ AgentIdle
    /\ buttons \in {f \in [ButtonIds -> [disabled : {FALSE},
                                         textContent : {"Generate New Post",
                                             "Add to Knowledge Base",
                                             "Start Research", "Go"}]] :
                       \A b \in ButtonIds : f[b].textContent \in MarkupLabels(b)}
    /\ upc = "idle" /\ uctx = NoAction
    /\ view = NoView

PageNext ==
    \/ GenerateNewPost
    \/ \E entered \in BOOLEAN : AddToKnowledgeBase(entered)
    \/ \E control \in {"start", "retry"}, entered \in BOOLEAN :
          StartResearch(control, entered)
    \/ FetchReturn
    \/ FetchThrow
    \/ BackoffElapsed
    \/ ActionFetchSettled
    \/ ActionJsonSettled
    \/ ActionLoadSettled

PageSpec == PageInit /\ [][PageNext]_vars

\* ====================== one activation of Generate, page and endpoint
\* the POST of attempt c - 1 of the page's call reaches the endpoint, which
\* serves it as creation c (the endpoint is not told when the page gives the
\* attempt up)
PostArrives(c) ==
    /\ \E i \in 1..Len(flog) : flog[i].ev = "fetch" /\ flog[i].attempt = c - 1
    /\ BlogGenerate(c, "generate")

\* the page receives the endpoint's answer to the attempt it is waiting for
PostAnswered ==
    /\ fpc = "fetch"
    /\ fctx.attempt + 1 \in Creators
    /\ cpc[fctx.attempt + 1] = "done"
    /\ FetchReturn
    /\ fresult'.status = cresp[fctx.attempt + 1].status

\* the one click on the Generate button
FirstActivation == flog = <<>> /\ GenerateNewPost

ResendInit ==
    /\ now = 0
    /\ db = FreshDb /\ vecs = <<>>
    /\ HandlersIdle
    /\ env = AllBound
    /\ deploy = [posts |-> "part_000"]
    /\ ResearchIdle
    /\ BlogIdle
    /\ ClientIdle
    /\ AgentIdle
    /\ PageIdle

ResendNext ==
    \/ Tick
    \/ FirstActivation
    \/ \E c \in Creators : PostArrives(c)
    \/ \E c \in Creators : GenAiReturn(c)
    \/ \E c \in Creators : GenInsertReturn(c)
    \/ \E c \in Creators : GenDeleteReturn(c)
    \/ PostAnswered
    \/ FetchThrow
    \/ BackoffElapsed
    \/ ActionFetchSettled
    \/ ActionJsonSettled
    \/ ActionLoadSettled

ResendSpec == ResendInit /\ [][ResendNext]_vars

\* ================================================================ claims
Has(log, e) == \E i \in 1..Len(log) : log[i] = e
Last(log) == log[Len(log)]
OwnRow(p) == Row(ctx[p].id, ctx[p].title, ctx[p].content)
\* the step in which ingest p returns after its vector insert failed
VecFailStep(p) ==
    /\ pc[p] = "add_vec"
    /\ pc'[p] = "done"
    /\ Last(calls'[p]) = "vectors.insert.fail"

\* ---------------------------------------------------------------------- C1
\* vectors.insert is issued only right after the INSERT of the same id
\* succeeded, and the row is then stored
C1_Order ==
    \A p \in Procs : \A i \in 1..Len(calls[p]) :
        (ctx[p].kind = "add" /\ calls[p][i] = "vectors.insert") =>
            /\ i > 1
            /\ calls[p][i - 1] = "db.insert.ok"
            /\ db[ctx[p].id] = OwnRow(p)

\* C1 as stated: in every ingest the vector insert is issued only after the
\* document insert for the id succeeded; when the vector insert fails the
\* request returns an error, the document is still stored, and the vector
\* index holds no record for its id.
C1_Original ==
    /\ []C1_Order
    /\ [][\A p \in Procs : VecFailStep(p) =>
            /\ db'[ctx[p].id] = OwnRow(p)
            /\ resp'[p].status = 500
            /\ resp'[p].body.tag = "error"
            /\ ~HasVec(vecs', ctx[p].id)]_vars

\* C1 (amended): in every ingest the vector insert is issued only after the
\* document insert for the id succeeded; when the vector insert fails the
\* request returns status 500 with an error, the document stays stored (no
\* rollback: the store is untouched by the failing step) and the ingest leaves
\* the vector index as it was, so the index holds a record for the id only if
\* a vectorize-queue message put it there.
C1_IngestOrder ==
    /\ []C1_Order
    /\ [][\A p \in Procs : VecFailStep(p) =>
            /\ db' = db
            /\ db'[ctx[p].id] = OwnRow(p)
            /\ vecs' = vecs
            /\ resp'[p].status = 500
            /\ resp'[p].body.tag = "error"]_vars

\* an ingest has returned an error after its vector insert failed; its
\* document is stored and not in the index
C1_Witness ==
    \E p \in Procs :
        /\ pc[p] = "done"
        /\ ctx[p].kind = "add"
        /\ calls[p] # <<>>
        /\ Last(calls[p]) = "vectors.insert.fail"
        /\ db[ctx[p].id].present
        /\ ~HasVec(vecs, ctx[p].id)

\* ---------------------------------------------------------------------- C2
\* C2: in every reachable state each record of the vector index has an id
\* for which the document store holds a document (no orphaned vectors).
C2_NoOrphanVectors ==
    \A i \in 1..Len(vecs) : db[vecs[i].id].present

\* ---------------------------------------------------------------------- C3
\* the step that starts ingest p with an empty or missing title or content
InvalidIngestStep(p) ==
    /\ pc[p] \in {"idle", "done"}
    /\ started' = started + 1
    /\ ctx'[p].kind = "add"
    /\ \/ ctx'[p].title \in {undefined, <<>>}
       \/ ctx'[p].content \in {undefined, <<>>}

\* C3: an ingest whose title or content is empty or missing returns status
\* 400 with an error at once, having issued no external call (no embedding),
\* and leaves the document store and the vector index unchanged.
C3_ValidationRejects ==
    [][\A p \in Procs : InvalidIngestStep(p) =>
            /\ pc'[p] = "done"
            /\ resp'[p].status = 400
            /\ resp'[p].body.tag = "error"
            /\ calls'[p] = <<>>
            /\ db' = db
            /\ vecs' = vecs]_vars

\* an ingest with a missing title was rejected while the stores held data
C3_Witness ==
    \E p \in Procs :
        /\ pc[p] = "done"
        /\ ctx[p].kind = "add"
        /\ ctx[p].title = undefined
        /\ resp[p].status = 400
        /\ calls[p] = <<>>
        /\ vecs # <<>>

\* ---------------------------------------------------------------------- C4
\* the step in which ingest p returns success
IngestSuccessStep(p) ==
    /\ pc[p] = "add_vec"
    /\ pc'[p] = "done"
    /\ resp'[p].status = 200

\* the vector of title + blank line + content under the stub embedding
ExpectedVector(title, content) ==
    LET text == title \o <<"\n", "\n">> \o content
    IN <<Cardinality({i \in 1..Len(text) : text[i] = "a"}),
         Cardinality({i \in 1..Len(text) : text[i] = "b"})>>

\* a search that started after an ingest returned id X returns X whenever
\* the index matched X
C4_LaterSearch ==
    \A p \in Procs :
        (pc[p] = "done" /\ ctx[p].kind = "search" /\ resp[p].status = 200) =>
            \A i \in 1..Len(ctx[p].matches) :
                ctx[p].matches[i].id \in ctx[p].after =>
                    \E k \in 1..Len(resp[p].body.results) :
                        resp[p].body.results[k].id = ctx[p].matches[i].id

\* C4: when ingest returns success with id X, document X with the submitted
\* title and content is stored and the index holds for X the vector of
\* title + blank line + content; a later search returns X whenever X is among
\* the matches of its index query.
C4_IngestThenSearch ==
    /\ [][\A p \in Procs : IngestSuccessStep(p) =>
            /\ resp'[p].body.tag = "added"
            /\ resp'[p].body.id = ctx[p].id
            /\ db'[ctx[p].id].present
            /\ db'[ctx[p].id].title = ctx[p].title
            /\ db'[ctx[p].id].content = ctx[p].content
            /\ HasVec(vecs', ctx[p].id)
            /\ VecOf(vecs', ctx[p].id) = ExpectedVector(ctx[p].title, ctx[p].content)
       ]_vars
    /\ []C4_LaterSearch

\* a search, started after the ingest of X returned, has returned X
C4_Witness ==
    \E p \in Procs :
        /\ pc[p] = "done"
        /\ ctx[p].kind = "search"
        /\ resp[p].status = 200
        /\ \E k \in 1..Len(resp[p].body.results) :
              resp[p].body.results[k].id \in ctx[p].after

\* ---------------------------------------------------------------------- C5
\* positions of the matches whose lookup found a document
Kept(rows) == {i \in 1..Len(rows) : rows[i].present}
Occurs(sub, text) ==
    \E j \in 0..(Len(text) - Len(sub)) : SubSeq(text, j + 1, j + Len(sub)) = sub
\* all lookups of a non-empty match list have returned
LookedUp(p) == ctx[p].matches # <<>> /\ Len(ctx[p].rows) = Len(ctx[p].matches)

\* C5: when a match has no document, search returns status 200 with exactly
\* the matches that have one, and chat still calls the generator with a
\* context that holds every document found and no entry for the missing one.
C5_DropsMissing ==
    \A p \in Procs :
        /\ (ctx[p].kind = "search" /\ LookedUp(p)) =>
              /\ pc[p] = "done"
              /\ resp[p].status = 200
              /\ resp[p].body.tag = "results"
              /\ Len(resp[p].body.results) = Cardinality(Kept(ctx[p].rows))
              /\ \A i \in 1..Len(ctx[p].matches) :
                    /\ ctx[p].rows[i].present => db[ctx[p].matches[i].id].present
                    /\ ctx[p].rows[i].present <=>
                          \E k \in 1..Len(resp[p].body.results) :
                              resp[p].body.results[k].id = ctx[p].matches[i].id
        /\ (ctx[p].kind = "chat" /\ LookedUp(p)) =>
              /\ pc[p] \in {"chat_gen", "done"}
              /\ Len(ctx[p].generated) = 1
              /\ Count(":", ctx[p].contextInfo) = Cardinality(Kept(ctx[p].rows))
              /\ \A i \in Kept(ctx[p].rows) :
                    Occurs(ctx[p].rows[i].title \o <<":", " ">> \o ctx[p].rows[i].content,
                           ctx[p].contextInfo)

\* a search returned after dropping one match and keeping another
C5_Witness ==
    \E p \in Procs :
        /\ pc[p] = "done"
        /\ ctx[p].kind = "search"
        /\ LookedUp(p)
        /\ resp[p].status = 200
        /\ \E i, j \in 1..Len(ctx[p].rows) :
              ~ctx[p].rows[i].present /\ ctx[p].rows[j].present

\* ---------------------------------------------------------------------- C6
\* C6: a successful search returns exactly the matches whose document was
\* found, in the order of the index (descending score), each with the score
\* of its match and the stored title and content; at most 5, and fewer than
\* the matches only by the number of dropped ones.
C6_SearchResult ==
    \A p \in Procs :
        (pc[p] = "done" /\ ctx[p].kind = "search" /\ resp[p].status = 200) =>
            LET m == ctx[p].matches
                r == ctx[p].rows
                res == resp[p].body.results
                dropped == {i \in 1..Len(m) : ~r[i].present}
            IN /\ Len(r) = Len(m)
               /\ Len(res) <= 5
               /\ Len(res) = Len(m) - Cardinality(dropped)
               /\ \A i \in Kept(r) :
                     LET k == Cardinality({j \in Kept(r) : j <= i})
                     IN /\ res[k].id = m[i].id
                        /\ res[k].score = m[i].score
                        /\ res[k].title = db[m[i].id].title
                        /\ res[k].content = db[m[i].id].content
               /\ \A k \in 1..(Len(res) - 1) : res[k].score >= res[k + 1].score

\* a search over an index of more than 5 records returned 5 matches less a
\* dropped one
C6_Witness ==
    \E p \in Procs :
        /\ pc[p] = "done"
        /\ ctx[p].kind = "search"
        /\ resp[p].status = 200
        /\ Len(vecs) > 5
        /\ Len(ctx[p].matches) = 5
        /\ Len(resp[p].body.results) = 4

\* ---------------------------------------------------------------------- C7
\* C7: a search whose embedding call failed has issued no other call (no
\* vector query, no document lookup) and has returned status 500 with an
\* error, not a result list.
C7_EmbedFailureAborts ==
    \A p \in Procs :
        (ctx[p].kind = "search" /\ Has(calls[p], "embed.fail")) =>
            /\ pc[p] = "done"
            /\ calls[p] = <<"embed", "embed.fail">>
            /\ resp[p].status = 500
            /\ resp[p].body.tag = "error"

\* a search has returned after its embedding call failed
C7_Witness ==
    \E p \in Procs :
        /\ pc[p] = "done"
        /\ ctx[p].kind = "search"
        /\ Has(calls[p], "embed.fail")
        /\ vecs # <<>>

\* ---------------------------------------------------------------------- C8
RetrievalFailed(p) ==
    \/ Has(calls[p], "embed.fail")
    \/ Has(calls[p], "vectors.query.fail")
    \/ Has(calls[p], "db.select.fail")

\* C8: a chat whose retrieval failed (embedding, vector query or a document
\* lookup) calls the generator exactly once, with the user turn equal to the
\* original message and an empty context, and its status is decided by the
\* generator call alone.
C8_ChatRetrievalFallback ==
    \A p \in Procs :
        (ctx[p].kind = "chat" /\ RetrievalFailed(p)) =>
            /\ pc[p] \in {"chat_gen", "done"}
            /\ Count("generate", calls[p]) = 1
            /\ Len(ctx[p].generated) = 1
            /\ ctx[p].generated[1][2].role = "user"
            /\ ctx[p].generated[1][2].content = ctx[p].message
            /\ ctx[p].contextInfo = <<>>
            /\ pc[p] = "done" =>
                  (resp[p].status = 200 <=> Last(calls[p]) = "generate.ok")

\* a chat answered with status 200 although a lookup failed after an earlier
\* lookup had found a document
C8_Witness ==
    \E p \in Procs :
        /\ pc[p] = "done"
        /\ ctx[p].kind = "chat"
        /\ Has(calls[p], "db.select.fail")
        /\ \E i \in 1..Len(ctx[p].rows) : ctx[p].rows[i].present
        /\ resp[p].status = 200

\* ---------------------------------------------------------------------- C9
ChatDone(p) ==
    /\ pc[p] = "done"
    /\ ctx[p].kind = "chat"
    /\ ctx[p].message \notin {undefined, <<>>}

RECURSIVE Blocks(_)
Blocks(rows) ==
    IF rows = <<>> THEN <<>>
    ELSE LET rest == Blocks(Tail(rows))
             r == Head(rows)
         IN IF ~r.present THEN rest
            ELSE r.title \o <<":", " ">> \o r.content \o
                 (IF rest = <<>> THEN <<>> ELSE <<"\n", "\n">> \o rest)

\* the chat's retrieval has completed without a failure
Retrieved(p) ==
    /\ ctx[p].kind = "chat"
    /\ pc[p] \in {"chat_gen", "done"}
    /\ Has(calls[p], "vectors.query.ok")
    /\ ~RetrievalFailed(p)

\* C10 as stated: the context block is the found documents rendered as
\* "{title}: {content}", in retrieval order, joined by blank lines, from at
\* most 3 matches, and empty iff no match survives.
C10_Original ==
    \A p \in Procs : Retrieved(p) =>
        /\ Len(ctx[p].matches) <= 3
        /\ ctx[p].contextInfo = Blocks(ctx[p].rows)
        /\ ctx[p].contextInfo = <<>> <=> Kept(ctx[p].rows) = {}

\* C10 (amended): the context block is empty iff no match survives, and
\* otherwise it is the header "\n\nRelevant context from knowledge base:\n"
\* followed by the found documents rendered as "{title}: {content}", in
\* retrieval order, joined by blank lines, from at most 3 matches.
C10_ContextBlock ==
    \A p \in Procs : Retrieved(p) =>
        /\ Len(ctx[p].matches) <= 3
        /\ ctx[p].contextInfo =
              IF Kept(ctx[p].rows) = {} THEN <<>>
              ELSE <<"\n", "\n", "Relevant context from knowledge base:", "\n">>
                   \o Blocks(ctx[p].rows)
        /\ ctx[p].contextInfo = <<>> <=> Kept(ctx[p].rows) = {}

\* a chat over an index of more than 3 records built its context from two
\* documents, one of its 3 matches having none
C10_Witness ==
    \E p \in Procs :
        /\ Retrieved(p)
        /\ Len(vecs) > 3
        /\ Len(ctx[p].matches) = 3
        /\ Cardinality(Kept(ctx[p].rows)) = 2

\* --------------------------------------------------------------------- C11
IsPrefix(s, t) == Len(s) <= Len(t) /\ SubSeq(t, 1, Len(s)) = s
UseContext == "Use the provided context to answer questions when relevant."

\* C11: every generator call made by chat receives exactly two turns, system
\* then user; the user turn is the original message followed by the context
\* block (appended, and the turn is there when the context is empty), and the
\* system turn tells the model to use the context iff the block is non-empty.
C11_ChatTurns ==
    \A p \in Procs : ctx[p].kind = "chat" =>
        /\ Len(ctx[p].generated) <= 1
        /\ Has(calls[p], "generate") <=> Len(ctx[p].generated) = 1
        /\ \A i \in 1..Len(ctx[p].generated) :
              LET turns == ctx[p].generated[i]
              IN /\ Len(turns) = 2
                 /\ turns[1].role = "system"
                 /\ turns[2].role = "user"
                 /\ IsPrefix(ctx[p].message, turns[2].content)
                 /\ turns[2].content = ctx[p].message \o ctx[p].contextInfo
                 /\ Has(turns[1].content, UseContext) <=> ctx[p].contextInfo # <<>>

\* a chat has called the generator with a non-empty context block
C11_Witness ==
    \E p \in Procs :
        /\ ctx[p].kind = "chat"
        /\ Len(ctx[p].generated) = 1
        /\ ctx[p].contextInfo # <<>>
        /\ Len(ctx[p].generated[1][2].content) > Len(ctx[p].message)

\* ------------------------------------------------------------ C12 .. C17
\* Explore, Critique, Synthesize, FinalReport as the code names them
PhaseOrder == <<"Initial Research", "Critical Analysis", "Synthesis", "FinalReport">>
\* the request has passed the checks of part_003 35-48
Validated(r) == rctx[r].kind = "research" /\ ~Falsy(rctx[r].query) /\ env.AI
RunDone(r) == rctx[r].kind = "research" /\ rpc[r] = "done"
\* the phase calls of a log that returned, in the order of the log
RECURSIVE Succeeded(_)
Succeeded(log) ==
    IF log = <<>> THEN <<>>
    ELSE (IF Head(log).outcome = "ok" /\ Head(log).phase # "FinalReport"
          THEN <<Head(log)>> ELSE <<>>) \o Succeeded(Tail(log))

\* C12: the generator calls of one research request are issued in the order
\* Explore, Critique, Synthesize, FinalReport, each only after the previous
\* one has returned or failed: at most one call of the request is outstanding.
C12_Sequential ==
    \A r \in Runs :
        /\ Len(rcalls[r]) <= 4
        /\ \A i \in 1..Len(rcalls[r]) :
              /\ rcalls[r][i].phase = PhaseOrder[i]
              /\ i < Len(rcalls[r]) => rcalls[r][i].outcome \in {"ok", "fail"}
        /\ Cardinality({i \in 1..Len(rcalls[r]) :
                           rcalls[r][i].outcome = "pending"}) <= 1

\* the final call of a request is outstanding after a failed and a returned
\* phase call
C12_Witness ==
    \E r \in Runs :
        /\ Len(rcalls[r]) = 4
        /\ rcalls[r][4].outcome = "pending"
        /\ rcalls[r][2].outcome = "fail"
        /\ rcalls[r][3].outcome = "ok"

\* a phase call of r fails in this step
PhaseFailStep(r) ==
    /\ rpc[r] = "phase"
    /\ rcalls'[r] # rcalls[r]
    /\ rcalls'[r][Len(rcalls[r])].outcome = "fail"

\* C13: when a phase call fails, findings stay as they are and the next call
\* (the next phase, or FinalReport after the third) is issued; a request that
\* passed validation has attempted FinalReport whatever phases failed.
C13_PhaseFailureAbsorbed ==
    /\ [](\A r \in Runs : (RunDone(r) /\ Validated(r)) =>
             /\ Len(rcalls[r]) = 4
             /\ rcalls[r][4].phase = "FinalReport")
    /\ [][\A r \in Runs : PhaseFailStep(r) =>
             /\ rctx'[r].findings = rctx[r].findings
             /\ Len(rcalls'[r]) = Len(rcalls[r]) + 1
             /\ Last(rcalls'[r]).phase = PhaseOrder[Len(rcalls[r]) + 1]
             /\ Last(rcalls'[r]).outcome = "pending"]_vars

\* all three phase calls of a request failed and its final call was issued
C13_Witness ==
    \E r \in Runs :
        /\ Len(rcalls[r]) = 4
        /\ \A i \in 1..3 : rcalls[r][i].outcome = "fail"
        /\ rctx[r].findings = <<>>

\* "{phase}:\n{content}" of the returned phase calls, joined by blank lines
RECURSIVE FindingBlocks(_)
FindingBlocks(log) ==
    IF log = <<>> THEN <<>>
    ELSE <<Head(log).phase, ":", "\n">> \o Head(log).text \o
         (IF Tail(log) = <<>> THEN <<>>
          ELSE <<"\n", "\n">> \o FindingBlocks(Tail(log)))

\* C14: a successful research request returns as sources the names of the
\* phases whose call returned, in phase order, and its final prompt is the
\* instruction quoting the query followed by exactly those phases' findings as
\* "{phase}:\n{content}" blocks.
C14_SourcesAndPrompt ==
    \A r \in Runs : (RunDone(r) /\ rresp[r].status = 200) =>
        LET ok == Succeeded(rcalls[r])
        IN /\ rresp[r].body.sources = [i \in 1..Len(ok) |-> ok[i].phase]
           /\ rcalls[r][4].messages[2].content =
                 <<"Based on the following research findings, create a comprehensive final report about \"">>
                 \o rctx[r].query \o <<"\":", "\n", "\n">> \o FindingBlocks(ok)

\* Explore and Critique failed, Synthesize returned: one source
C14_Witness ==
    \E r \in Runs :
        /\ RunDone(r) /\ rresp[r].status = 200
        /\ rcalls[r][1].outcome = "fail"
        /\ rcalls[r][2].outcome = "fail"
        /\ rcalls[r][3].outcome = "ok"
        /\ rresp[r].body.sources = <<"Synthesis">>

\* C15: when the FinalReport call fails the request ends in a failure result
\* (success false with an error, status 500), never in a report.
C15_FinalFailureFatal ==
    \A r \in Runs :
        (RunDone(r) /\ Len(rcalls[r]) = 4 /\ rcalls[r][4].outcome = "fail") =>
            /\ rresp[r].status = 500
            /\ rresp[r].body.tag = "error"
            /\ rresp[r].body.error # ""

\* the final call failed after all three phases had returned
C15_Witness ==
    \E r \in Runs :
        /\ RunDone(r) /\ Len(rcalls[r]) = 4
        /\ rcalls[r][4].outcome = "fail"
        /\ Len(rctx[r].findings) = 3
        /\ rresp[r].body.tag = "error"

C17_PromptsIndependent ==
    \A r1, r2 \in Runs :
        (/\ Validated(r1) /\ Validated(r2)
         /\ rctx[r1].query = rctx[r2].query
         /\ rctx[r1].type = rctx[r2].type) =>
            \A k \in 2..3 : (k <= Len(rcalls[r1]) /\ k <= Len(rcalls[r2])) =>
                rcalls[r1][k].messages = rcalls[r2][k].messages

\* two requests with the same query and type, one whose Explore failed and
\* one whose Explore returned text, have both issued Synthesize
C17_Witness ==
    \E r1, r2 \in Runs :
        /\ Validated(r1) /\ Validated(r2)
        /\ rctx[r1].query = rctx[r2].query
        /\ rctx[r1].type = rctx[r2].type
        /\ Len(rcalls[r1]) >= 3 /\ Len(rcalls[r2]) >= 3
        /\ rcalls[r1][1].outcome = "fail"
        /\ rcalls[r2][1].outcome = "ok" /\ rcalls[r2][1].text # <<>>

\* ------------------------------------------------------------ C18 .. C20
\* the list request l was answered from the cache
AnsweredFromCache(l) ==
    /\ lpc[l] = "done"
    /\ lresp[l].body.tag = "posts"
    /\ lresp[l].xcache = "HIT"
ListedIds(l) ==
    {lresp[l].body.posts[i].id : i \in 1..Len(lresp[l].body.posts)}

\* C18: a list request that starts after a post creation has completed is
\* never answered from a cached list that omits that post.
C18_NoStaleList ==
    \A l \in Listers : AnsweredFromCache(l) => lctx[l].after \subseteq ListedIds(l)

\* the list request l has ended in an error
ListError(l) == lpc[l] = "done" /\ lresp[l].body.tag = "error"
CreationError(c) ==
    /\ cpc[c] = "done"
    /\ cctx[c].handler = "generate"
    /\ cresp[c].body.tag = "error"
NoCacheCall(log) ==
    \A i \in 1..Len(log) :
        log[i] \notin {"cache.get", "cache.put", "cache.delete"}
\* the SELECT of l returns rows in this step
SelectReturnStep(l) ==
    /\ lpc[l] = "list_select"
    /\ lcalls'[l] # lcalls[l]
    /\ Has(lcalls'[l], "db.select.ok")

\* C19: in a deployment with a database but without the cache binding, every
\* list request queries the database and answers with the rows it returned,
\* every creation that stored its post ends as it does when the delete of the
\* cache key has returned, the cache is never called, and a request ends in
\* an error only when its database or generator call failed.
C19_CacheAbsent ==
    /\ []((~env.BLOG_CACHE /\ env.DB) =>
            /\ cache = NoEntry
            /\ \A l \in Listers :
                  /\ NoCacheCall(lcalls[l])
                  /\ lpc[l] # "idle" => Has(lcalls[l], "db.select")
                  /\ ListError(l) => Has(lcalls[l], "db.select.fail")
            /\ \A c \in Creators :
                  /\ NoCacheCall(ccalls[c])
                  /\ CreationError(c) =>
                        \/ Has(ccalls[c], "ai.run.fail")
                        \/ Has(ccalls[c], "db.insert.fail")
                  /\ (cpc[c] = "done" /\ Has(ccalls[c], "db.insert.ok")) =>
                        /\ cctx[c].postId \in created
                        /\ cctx[c].handler = "generate" =>
                              /\ cresp[c].status = 200
                              /\ cresp[c].body.postId = cctx[c].postId)
    /\ [][\A l \in Listers : (~env.BLOG_CACHE /\ SelectReturnStep(l)) =>
             /\ lpc'[l] = "done"
             /\ lresp'[l].status = 200
             /\ lresp'[l].body.posts = SelectPublished(posts)]_vars

\* without the cache binding a list request has returned the post that a
\* completed creation stored
C19_Witness ==
    \E l \in Listers, c \in Creators :
        /\ ~env.BLOG_CACHE
        /\ cpc[c] = "done" /\ cctx[c].postId \in created
        /\ lpc[l] = "done" /\ lresp[l].body.tag = "posts"
        /\ cctx[c].postId \in ListedIds(l)
        /\ cctx[c].postId \in lctx[l].after

\* C20: two requests that generate an id generate different ids.
C20_UniqueIds ==
    \A c1, c2 \in Creators :
        (/\ c1 # c2
         /\ cctx[c1].kind = "create" /\ cctx[c1].postId # -1
         /\ cctx[c2].kind = "create" /\ cctx[c2].postId # -1) =>
            cctx[c1].postId # cctx[c2].postId

\* --------------------------------------------------------------------- C21
\* the INSERT of p returns in this step while a row with its id is stored,
\* and no failure of the database itself is reported
WriteExistingStep(p) ==
    /\ pc[p] = "add_db"
    /\ db[ctx[p].id].present
    /\ pc'[p] # "add_db"
    /\ resp'[p] # ErrorResp(500, "D1 error")

\* C21: writing a document whose id is already stored succeeds and replaces
\* the stored document.
C21_PutReplaces ==
    [][\A p \in Procs : WriteExistingStep(p) =>
          /\ pc'[p] = "add_vec"
          /\ db'[ctx[p].id] = OwnRow(p)]_vars

\* --------------------------------------------------------------------- C22
\* no two records of the index carry the same id
OnePerId(index) ==
    \A i, j \in 1..Len(index) : index[i].id = index[j].id => i = j

\* the queue consumer's VECTORS.insert of the current message succeeds in this step
QueueInsertStep == qpc = "q_insert" /\ Len(acked') > Len(acked)

\* the ingest handler's vectors.insert of p succeeds in this step
IngestInsertStep(p) ==
    pc[p] = "add_vec" /\ pc'[p] = "done" /\ resp'[p].status = 200

\* C22: after any sequence of vector inserts, re-insertion of an id
\* included, the index holds at most one record per id and that record
\* carries the vector of the latest insert for the id.
C22_LatestVectorPerId ==
    /\ []OnePerId(vecs)
    /\ [][/\ QueueInsertStep =>
               /\ HasVec(vecs', batch[qi].id)
               /\ VecOf(vecs', batch[qi].id) = qEmbedding
               /\ OnePerId(vecs')
          /\ \A p \in Procs : IngestInsertStep(p) =>
               /\ HasVec(vecs', ctx[p].id)
               /\ VecOf(vecs', ctx[p].id) = ctx[p].embedding
               /\ OnePerId(vecs')]_vars

\* an id was inserted by the ingest handler and again, with another vector,
\* by the queue consumer; the index holds one record with the later vector
C22_Witness ==
    \E p \in Procs :
        /\ pc[p] = "done"
        /\ ctx[p].kind = "add"
        /\ resp[p].status = 200
        /\ qpc = "idle"
        /\ Has(acked, 1)
        /\ batch[1].id = ctx[p].id
        /\ ctx[p].embedding # Embed(EmbedInput(batch[1].title, batch[1].content))
        /\ VecOf(vecs, ctx[p].id) = Embed(EmbedInput(batch[1].title, batch[1].content))
        /\ OnePerId(vecs)

\* --------------------------------------------------------------------- C24
\* number of occurrences of x in the sequence s
Occurrences(s, x) == Cardinality({i \in 1..Len(s) : s[i] = x})

\* every message of the batch is settled exactly once: acked once or retried
\* once, never both
SettledOnce ==
    \A i \in 1..Len(batch) : Occurrences(acked, i) + Occurrences(retried, i) = 1

\* queue() returns in this step
QueueReturnStep == qpc # "idle" /\ qpc' = "idle"

\* C24: when queue() returns every message of the batch has been acked
\* exactly once or retried exactly once, never both; a message is acked only
\* in the step in which its vector insert succeeds, and is retried whenever
\* its embedding call or its insert fails; a failure on one message does not
\* stop the consumer before the later messages are settled.
C24_AckOrRetryOnce ==
    /\ [](delivered > 0 /\ qpc = "idle" => SettledOnce)
    /\ [](\A i \in 1..Len(batch) :
              Occurrences(acked, i) + Occurrences(retried, i) <= 1)
    /\ [][/\ QueueReturnStep => SettledOnce'
          /\ Len(acked') > Len(acked) =>
               /\ qpc = "q_insert"
               /\ acked' = Append(acked, qi)
               /\ HasVec(vecs', batch[qi].id)
               /\ VecOf(vecs', batch[qi].id) = qEmbedding
          /\ (qpc \in {"q_embed", "q_insert"} /\ qi' # qi /\ acked' = acked) =>
               retried' = Append(retried, qi)
          /\ (qpc \in {"q_embed", "q_insert"} /\ qi' # qi /\ qi < Len(batch)) =>
               qpc' = "q_embed" /\ qi' = qi + 1]_vars

\* queue() returned after retrying the first message and acking the second
C24_Witness ==
    /\ delivered > 0
    /\ qpc = "idle"
    /\ Len(batch) = 2
    /\ retried = <<1>>
    /\ acked = <<2>>
    /\ HasVec(vecs, batch[2].id)

\* --------------------------------------------------------------------- C23
\* the generator call of c returns an answer in this step
AnswerStep(c) ==
    cpc[c] = "gen_ai" /\ cpc'[c] # "gen_ai" /\ Has(ccalls'[c], "ai.run.ok")

\* after the answer the creation goes on to the INSERT with a non-empty title
\* and a non-empty content
UsablePost(c) ==
    /\ cpc'[c] = "gen_insert"
    /\ ~Falsy(cctx'[c].postData.title)
    /\ ~Falsy(cctx'[c].postData.content)

\* C23: for every answer of the generator (JSON with title and content, JSON
\* lacking a field, JSON that is not an object, a text that is not JSON, the
\* empty response) post generation goes on to store a post with a non-empty
\* title and a non-empty content; the answer's format alone never makes the
\* generation fail.
C23_AnyOutputStored ==
    /\ [][\A c \in Creators : AnswerStep(c) => UsablePost(c)]_vars
    /\ [](\A i \in 1..Len(posts) : ~Falsy(posts[i].title) /\ ~Falsy(posts[i].content))

\* the same for the creations of POST /api/blog/generate alone
GenerateOutputStored ==
    [][\A c \in Creators :
          AnswerStep(c) /\ cctx[c].handler = "generate" => UsablePost(c)]_vars

\* --------------------------------------------------------------- C25, C26
\* the entries of the call's history of one kind
EventsOf(ev) == {i \in 1..Len(flog) : flog[i].ev = ev}
Attempts == Cardinality(EventsOf("fetch"))
FetchDone == fpc \in {"returned", "thrown"}

\* the call returned the response of its last attempt, the only response
ReturnedFirstResponse ==
    /\ Cardinality(EventsOf("response")) = 1
    /\ Last(flog).ev = "response"
    /\ fresult = [kind |-> "response", status |-> Last(flog).n, name |-> ""]

\* every attempt failed: the error of the last attempt is thrown, and no
\* backoff wait follows the last attempt
ThrewLastError ==
    /\ EventsOf("response") = {}
    /\ Attempts = fctx.maxRetries + 1
    /\ Last(flog).ev = "error"
    /\ fresult = [kind |-> "error", status |-> 0, name |-> Last(flog).name]
    /\ Cardinality(EventsOf("wait")) = fctx.maxRetries

\* C25: fetchWithRetry always terminates; it makes at most maxRetries + 1
\* attempts (4 with the defaults), returns the first response without a
\* further attempt, and when every attempt fails throws the last error
\* without a backoff wait after the last attempt.
C25_RetryTerminates ==
    /\ [](fpc # "idle" =>
            /\ Attempts <= fctx.maxRetries + 1
            /\ (~fctx.options.retries.given => Attempts <= RETRY_ATTEMPTS + 1))
    /\ [](fpc = "returned" => ReturnedFirstResponse)
    /\ [](fpc = "thrown" => ThrewLastError)
    /\ [][FetchDone => UNCHANGED clientVars]_vars
    /\ (fpc # "idle" ~> FetchDone)

\* with the defaults all four attempts failed and the last error was thrown
C25_Witness ==
    /\ fpc = "thrown"
    /\ ~fctx.options.retries.given
    /\ Attempts = 4
    /\ fresult.name = "AbortError"
    /\ flog[1].name # "AbortError"

\* C26: a call with options.retries = n, for every n >= 0 including 0, makes
\* at most n retries, that is n + 1 attempts.
C26_RetriesOption ==
    fpc # "idle" /\ fctx.options.retries.given =>
        Attempts <= fctx.options.retries.value + 1

\* --------------------------------------------------------------------- C27
PublishedRows(tbl) == {j \in 1..Len(tbl) : tbl[j].status = "published"}

\* list is the answer the claim asks for over the table tbl: published rows
\* only, each once, newest first, the 50 newest when there are more
NewestPublished(tbl, list) ==
    /\ Len(list) <= 50
    /\ Len(list) = IF Cardinality(PublishedRows(tbl)) < 50
                   THEN Cardinality(PublishedRows(tbl)) ELSE 50
    /\ \A i \in 1..Len(list) :
          /\ list[i].status = "published"
          /\ \E j \in PublishedRows(tbl) :
                tbl[j].id = list[i].id /\ tbl[j].created_at = list[i].date
    /\ \A i, j \in 1..Len(list) :
          /\ i < j => list[i].date >= list[j].date
          /\ list[i].id = list[j].id => i = j
    /\ \A j \in PublishedRows(tbl) :
          (\A i \in 1..Len(list) : list[i].id # tbl[j].id) =>
              \A i \in 1..Len(list) : tbl[j].created_at <= list[i].date

\* C27: a list request served from the database returns only posts whose
\* status is 'published', ordered by creation time descending, and at most
\* 50 of them.
C27_PublishedNewestFirst ==
    [][\A l \in Listers : SelectReturnStep(l) =>
          NewestPublished(posts, lctx'[l].posts)]_vars

\* a request answered from a table of more than 50 published posts and a
\* draft with the 50 newest published ones
C27_Witness ==
    \E l \in Listers :
        /\ lpc[l] = "done"
        /\ Has(lcalls[l], "db.select.ok")
        /\ lresp[l].status = 200
        /\ Cardinality(PublishedRows(posts)) > 50
        /\ Cardinality(PublishedRows(posts)) < Len(posts)
        /\ Len(lresp[l].body.posts) = 50
        /\ lresp[l].body.posts = lctx[l].posts
        /\ lresp[l].body.posts[1].date > lresp[l].body.posts[50].date

\* --------------------------------------------------------------------- C28
\* the list request l, answered from the database in a deployment with a
\* cache none of whose calls failed, completes successfully in this step
MissCompletes(l) ==
    /\ lpc[l] # "done"
    /\ lpc'[l] = "done"
    /\ lresp'[l].status = 200
    /\ env.BLOG_CACHE
    /\ Has(lcalls'[l], "db.select.ok")
    /\ ~Has(lcalls'[l], "cache.get.fail")
    /\ ~Has(lcalls'[l], "cache.put.fail")

\* after the step the key holds the list with a TTL of 300 seconds
HoldsAfter(list) == cache' = [present |-> TRUE, value |-> list, ttl |-> 300]

\* C28 as stated: after a list request that missed the cache completes
\* successfully with a working cache, the cache holds under 'blog_posts' the
\* list the request returned, with a 300-second TTL, for every database
\* result including the empty list.
C28_Original ==
    [][\A l \in Listers : MissCompletes(l) => HoldsAfter(lresp'[l].body.posts)]_vars

\* C28 (amended): such a request leaves in the cache the list it returned,
\* with a 300-second TTL, for every non-empty database result, and in the
\* short version of the handler for the empty list too; the documented
\* handler answers an empty result without touching the cache.
C28_MissCachesList ==
    [][\A l \in Listers : MissCompletes(l) =>
          IF deploy.posts = "part_001" \/ Len(lresp'[l].body.posts) > 0
          THEN HoldsAfter(lresp'[l].body.posts)
          ELSE UNCHANGED cache /\ ~Has(lcalls'[l], "cache.put")]_vars

\* a request that missed the cache has completed and the cache holds the
\* non-empty list it returned
C28_Witness ==
    \E l \in Listers :
        /\ lpc[l] = "done"
        /\ Has(lcalls[l], "cache.get.miss")
        /\ Has(lcalls[l], "cache.put.ok")
        /\ lresp[l].status = 200
        /\ Len(lresp[l].body.posts) > 0
        /\ cache = [present |-> TRUE, value |-> lresp[l].body.posts, ttl |-> 300]

\* --------------------------------------------------------------------- C29
\* the cache read of l returns the stored value in this step
HitStep(l) ==
    /\ lpc[l] = "list_get"
    /\ lpc'[l] # "list_get"
    /\ cache.present
    /\ ~Has(lcalls'[l], "cache.get.fail")

\* C29: on a cache hit the list request returns the cached value as its body
\* and does not query the database; the database is queried only when the
\* cache misses, is absent, or its read fails.
C29_HitSkipsDatabase ==
    /\ [][\A l \in Listers : HitStep(l) =>
             /\ lpc'[l] = "done"
             /\ lresp'[l].status = 200
             /\ lresp'[l].body.posts = cache.value
             /\ ~Has(lcalls'[l], "db.select")]_vars
    /\ [](\A l \in Listers :
             /\ Has(lcalls[l], "cache.get.hit") => ~Has(lcalls[l], "db.select")
             /\ Has(lcalls[l], "db.select") =>
                  \/ ~env.BLOG_CACHE
                  \/ Has(lcalls[l], "cache.get.miss")
                  \/ Has(lcalls[l], "cache.get.fail"))

\* a request was answered with a cached list that differs from what the
\* table holds, without a query
C29_Witness ==
    \E l \in Listers :
        /\ lpc[l] = "done"
        /\ lcalls[l] = <<"cache.get", "cache.get.hit">>
        /\ lresp[l].status = 200
        /\ cache.present
        /\ lresp[l].body.posts = cache.value
        /\ cache.value # SelectPublished(posts)

\* --------------------------------------------------------------------- C30
\* the request c of POST /api/blog/generate has ended after its INSERT succeeded
StoredAndEnded(c) ==
    /\ cpc[c] = "done"
    /\ cctx[c].handler = "generate"
    /\ Has(ccalls[c], "db.insert.ok")

BasePrompt == <<"You are a research assistant specialized in deep analysis.">>
NamedTypes == {"comprehensive", "quick", "comparison", "deep-dive"}

\* the suffix the claim assigns to each of the four types
SuffixOf(type) ==
    CASE type = "comprehensive" ->
           <<" Provide a comprehensive, well-structured research report with multiple perspectives.">>
      [] type = "quick" -> <<" Provide a concise summary of key points.">>
      [] type = "comparison" ->
           <<" Compare different approaches, technologies, or concepts systematically.">>
      [] type = "deep-dive" ->
           <<" Provide an in-depth technical analysis with detailed explanations.">>

\* the system prompt sent with the k-th call of r
SystemPromptSent(r, k) == rcalls[r][k].messages[1].content

\* C31: the system prompt of a research request is the fixed base prompt
\* followed by a suffix determined only by the request's type; the four types
\* comprehensive, quick, comparison and deep-dive have four different fixed
\* suffixes, and all three phase calls of a request carry the same system
\* prompt.
C31_SystemPromptByType ==
    /\ \A t1, t2 \in NamedTypes : SuffixOf(t1) = SuffixOf(t2) => t1 = t2
    /\ \A r \in Runs : Validated(r) =>
          \A k \in 1..3 : k <= Len(rcalls[r]) =>
             /\ SystemPromptSent(r, k) = SystemPromptSent(r, 1)
             /\ SubSeq(SystemPromptSent(r, k), 1, Len(BasePrompt)) = BasePrompt
             /\ rctx[r].type \in NamedTypes =>
                  SystemPromptSent(r, k) = BasePrompt \o SuffixOf(rctx[r].type)
    /\ \A r1, r2 \in Runs :
          (/\ Validated(r1) /\ Validated(r2)
           /\ Len(rcalls[r1]) >= 1 /\ Len(rcalls[r2]) >= 1
           /\ rctx[r1].type = rctx[r2].type) =>
              SystemPromptSent(r1, 1) = SystemPromptSent(r2, 1)

\* two requests of different named types have issued all three phase calls,
\* with different system prompts
C31_Witness ==
    \E r1, r2 \in Runs :
        /\ Validated(r1) /\ Validated(r2)
        /\ rctx[r1].type = "quick" /\ rctx[r2].type = "deep-dive"
        /\ Len(rcalls[r1]) >= 3 /\ Len(rcalls[r2]) >= 3
        /\ SystemPromptSent(r1, 3) # SystemPromptSent(r2, 3)
        /\ SystemPromptSent(r1, 3) = BasePrompt \o SuffixOf("quick")

\* --------------------------------------------------------------------- C34
\* the backoff waits of the call, in the order they were started
RECURSIVE WaitsOf(_)
WaitsOf(log) ==
    IF log = <<>> THEN <<>>
    ELSE (IF Head(log).ev = "wait" THEN <<Head(log).n>> ELSE <<>>) \o WaitsOf(Tail(log))
RECURSIVE Sum(_)
Sum(s) == IF s = <<>> THEN 0 ELSE Head(s) + Sum(Tail(s))
RECURSIVE TwoToThe(_)
TwoToThe(k) == IF k = 0 THEN 1 ELSE TwoToThe(k - 1) + TwoToThe(k - 1)

\* C34: fetchWithRetry waits RETRY_DELAY * 2^k ms between failed attempt k+1
\* and the next attempt (1000, 2000, 4000 ms with the defaults): the waits
\* double, and the total wait before giving up is
\* RETRY_DELAY * (2^maxRetries - 1).
C34_BackoffDoubles ==
    LET waits == WaitsOf(flog)
    IN /\ \A k \in 1..Len(waits) :
             /\ waits[k] = 1000 * TwoToThe(k - 1)
             /\ k > 1 => waits[k] = 2 * waits[k - 1]
       /\ \A i \in 1..Len(flog) : flog[i].ev = "wait" =>
             /\ i > 1 /\ flog[i - 1].ev = "error"
             /\ flog[i - 1].attempt = flog[i].attempt
             /\ i < Len(flog) =>
                  flog[i + 1].ev = "fetch" /\ flog[i + 1].attempt = flog[i].attempt + 1
       /\ fpc = "thrown" =>
             /\ Sum(waits) = 1000 * (TwoToThe(fctx.maxRetries) - 1)
             /\ (~fctx.options.retries.given => waits = <<1000, 2000, 4000>>)

\* with the defaults the call gave up after waiting 1000, 2000 and 4000 ms
C34_Witness ==
    /\ fpc = "thrown"
    /\ ~fctx.options.retries.given
    /\ WaitsOf(flog) = <<1000, 2000, 4000>>
    /\ Sum(WaitsOf(flog)) = 7000

\* --------------------------------------------------------------------- C38
\* C38: fetchWithRetry retries only attempts that end in a thrown error
\* (network failure or timeout abort); a response with any HTTP status, 4xx
\* and 5xx included, is returned to the caller at once and never retried.
C38_ResponsesNotRetried ==
    /\ \A i \in 1..Len(flog) :
          /\ flog[i].ev = "response" =>
                /\ i = Len(flog)
                /\ fpc = "returned"
                /\ fresult = [kind |-> "response", status |-> flog[i].n, name |-> ""]
          /\ (flog[i].ev = "fetch" /\ i > 1) =>
                /\ i > 3
                /\ flog[i - 1].ev = "wait"
                /\ flog[i - 2].ev = "error"
                /\ flog[i - 2].name \in {"TypeError", "AbortError"}
                /\ flog[i - 3].ev = "fetch"
    /\ fpc = "fetch" => Last(flog).ev = "fetch"

\* the second attempt, made after a timeout abort, was answered with status
\* 500, which the call returned
C38_Witness ==
    /\ fpc = "returned"
    /\ Len(flog) = 5
    /\ flog[2].ev = "error" /\ flog[2].name = "AbortError"
    /\ flog[5].ev = "response" /\ flog[5].n = 500
    /\ fresult.status = 500

\* --------------------------------------------------------------------- C39
\* the embedding call of the ingest p failed, or returned without a vector
NoEmbedding(p) ==
    /\ ctx[p].kind = "add"
    /\ \/ Has(calls[p], "embed.fail")
       \/ Has(calls[p], "embed.ok") /\ ctx[p].embedding = NoVec

\* C39: if the embedding call fails or returns no vector during ingest, no id
\* is generated and neither the document store nor the vector index is
\* written, and the request reports an error.
C39_NoEmbeddingNoWrite ==
    \A p \in Procs : NoEmbedding(p) =>
        /\ ~Has(calls[p], "db.insert")
        /\ ~Has(calls[p], "vectors.insert")
        /\ pc[p] = "done"
        /\ resp[p].status = 500

\* the same for an embedding call that throws alone
EmbedThrowNoWrite ==
    \A p \in Procs : (ctx[p].kind = "add" /\ Has(calls[p], "embed.fail")) =>
        /\ calls[p] = <<"embed", "embed.fail">>
        /\ pc[p] = "done"
        /\ resp[p].status = 500

\* --------------------------------------------------------------------- C32
CreationFailed(log) == Has(log, "ai.run.fail") \/ Has(log, "db.insert.fail")

\* C32: in post creation the cache key is deleted only after the INSERT of
\* the new post has succeeded; a creation whose generator call or INSERT
\* failed never deletes it, and the step in which it fails leaves the table
\* and the cache as they were.
C32_DeleteAfterInsert ==
    /\ [](\A c \in Creators :
             /\ \A j \in 1..Len(ccalls[c]) : ccalls[c][j] = "cache.delete" =>
                   /\ \E i \in 1..(j - 1) : ccalls[c][i] = "db.insert.ok"
                   /\ cctx[c].postId \in PostIds(posts)
             /\ CreationFailed(ccalls[c]) =>
                   /\ ~Has(ccalls[c], "cache.delete")
                   /\ cpc[c] = "done")
    /\ [][\A c \in Creators :
             (~CreationFailed(ccalls[c]) /\ CreationFailed(ccalls'[c])) =>
                 UNCHANGED <<posts, cache>>]_vars
    /\ [][\A c \in Creators :
             (cpc'[c] # cpc[c] /\ cache.present /\ ~cache'.present) =>
                 /\ cpc[c] = "gen_delete"
                 /\ Has(ccalls[c], "db.insert.ok")]_vars

\* a creation has ended on a failed INSERT while the cache holds the list of
\* a table that is not empty
C32_Witness ==
    \E c \in Creators :
        /\ cpc[c] = "done"
        /\ Has(ccalls[c], "db.insert.fail")
        /\ cache.present
        /\ posts # <<>>
        /\ cache.value = SelectPublished(posts)

\* the calls made so far for message i of the delivered batch
AgentLog(i) == IF i \in 1..Len(alog) THEN alog[i] ELSE <<>>
\* the handling of message i is over
AgentMessageOver(i) ==
    i \in 1..Len(abatch) /\ (i < aqi \/ apc \in {"returned", "rejected"})
AgentFailures ==
    {"update.processing.fail", "ai.phase.fail", "ai.final.fail", "update.completed.fail"}
StepFailed(log) == \E e \in AgentFailures : Has(log, e)
\* queue() is over, by return or by rejection
QueueOver == apc \in {"returned", "rejected"}

\* acknowledgement follows the write of 'completed' (holds)
AckAfterCompleted ==
    \A i \in 1..Len(asettled) :
        asettled[i] = "acked" =>
            Has(AgentLog(i), "update.completed.ok") /\ ~StepFailed(AgentLog(i))

\* C33: when queue() is over every message of the batch is acknowledged or
\* marked for retry; a message is acknowledged only after 'completed' was
\* written and marked for retry whenever one of its steps failed; no failure
\* on a message, the failure to record 'failed' included, keeps the
\* remaining messages from being processed
C33_EveryMessageSettled ==
    /\ QueueOver => \A i \in 1..Len(abatch) : asettled[i] \in {"acked", "retried"}
    /\ AckAfterCompleted
    /\ \A i \in 1..Len(abatch) :
          AgentMessageOver(i) /\ StepFailed(AgentLog(i)) => asettled[i] = "retried"
    /\ QueueOver => Len(alog) = Len(abatch)

\* the first message's failure could not be recorded and the second message
\* was never taken up
C33_BugState ==
    /\ apc = "rejected" /\ Len(abatch) = 2 /\ aqi = 1
    /\ asettled = <<"none", "none">>
    /\ Len(alog) = 1

AgentTypeOK ==
    /\ tasks \in [TaskIds -> [status : {"pending", "processing", "completed", "failed"},
                              result : AgentOutputs \cup {AiError, DbError}]]
    /\ apc \in {"idle", "a_processing", "a_phase", "a_final", "a_completed",
                "a_failed", "returned", "rejected"}
    /\ aqi \in 0..3
    /\ adelivered \in 0..MaxDeliveries
    /\ Len(asettled) = Len(abatch)
    /\ Len(alog) <= Len(abatch)

\* error.message of the exception the catch block received
ErrorOf(log) ==
    IF Has(log, "update.processing.fail") \/ Has(log, "update.completed.fail")
    THEN DbError ELSE AiError
\* after the failed call only the catch block's UPDATE and retry() follow
NoLaterCall(log) ==
    \A j \in 1..Len(log) :
        log[j] \in AgentFailures =>
            \A k \in (j + 1)..Len(log) :
                log[k] \in {"update.failed", "update.failed.ok", "update.failed.fail",
                            "retry"}
FailedTask(log) == [status |-> "failed", result |-> ErrorOf(log)]
\* a task becomes 'completed' in the step that ends an UPDATE issued after
\* three phase calls and the final call of the same delivery succeeded, and
\* the stored result is the final report's text
CompletedStep ==
    \A t \in TaskIds :
        tasks'[t].status = "completed" /\ tasks[t].status # "completed" =>
            /\ apc = "a_completed"
            /\ actx.taskId = t
            /\ ~StepFailed(AgentLog(aqi))
            /\ Count("ai.phase.ok", AgentLog(aqi)) = Len(researchPhases)
            /\ Has(AgentLog(aqi), "ai.final.ok")
            /\ tasks'[t].result = actx.report
\* a failed call is the message's last call and leaves no report
FailureStopsTask ==
    \A i \in 1..Len(alog) :
        StepFailed(alog[i]) =>
            /\ NoLaterCall(alog[i])
            /\ tasks[abatch[i].taskId].status # "completed"
\* as stated: every failure is recorded in the task
FailureAlwaysRecorded ==
    \A i \in 1..Len(alog) :
        StepFailed(alog[i]) /\ AgentMessageOver(i) =>
            tasks[abatch[i].taskId] = FailedTask(alog[i])
\* a failure is recorded when the UPDATE that records it succeeds
FailureRecordedIfWritten ==
    \A i \in 1..Len(alog) :
        StepFailed(alog[i]) /\ AgentMessageOver(i) =>
            IF Has(alog[i], "update.failed.ok")
            THEN tasks[abatch[i].taskId] = FailedTask(alog[i])
            ELSE /\ Last(alog[i]) = "update.failed.fail"
                 /\ tasks[abatch[i].taskId].status # "completed"

\* C36 as stated: a task is 'completed' only if the three phase calls and
\* the final call succeeded within one delivery, with the final report's
\* text as result; when a call fails no later call is made, no report is
\* stored and the task is recorded 'failed' with the error message
C36_Original ==
    /\ [](FailureStopsTask /\ FailureAlwaysRecorded)
    /\ [][CompletedStep]_vars

\* C36: a task is 'completed' only if the three phase calls and the final
\* call succeeded within one delivery, with the final report's text as
\* result; when a call fails no later call is made and no report is stored,
\* and the task is recorded 'failed' with the error message if the UPDATE
\* that records it succeeds (otherwise the task keeps the status it had)
C36_CompletedOnlyAfterAllCalls ==
    /\ [](FailureStopsTask /\ FailureRecordedIfWritten)
    /\ [][CompletedStep]_vars

\* one delivery completed its first task and failed its second in a model
\* call
C36_Witness ==
    /\ apc = "returned" /\ Len(abatch) = 2
    /\ asettled = <<"acked", "retried">>
    /\ tasks[abatch[1].taskId].status = "completed"
    /\ tasks[abatch[2].taskId] = [status |-> "failed", result |-> AiError]

\* while a handler runs its button is disabled and shows the busy label
DisabledInFlight ==
    upc # "idle" => buttons[uctx.button] = Button(TRUE, BusyLabel(uctx.handler))
\* the step in which handler h ends leaves its button as the handler found
\* it
ExitRestores(h) ==
    upc # "idle" /\ upc' = "idle" /\ uctx.handler = h =>
        buttons'[uctx.button] = uctx.before
\* a click that fails validation leaves every button alone
ValidationKeeps == upc = "idle" /\ upc' = "idle" => buttons' = buttons
\* generateNewPost and addToKnowledgeBase restore their button on every
\* exit path (holds)
GenerateAndAddRestore ==
    /\ []DisabledInFlight
    /\ [][ExitRestores("generateNewPost") /\ ExitRestores("addToKnowledgeBase")
          /\ ValidationKeeps]_vars

C37_AtMostOnePost == Len(posts) <= 1

\* the first attempt was given up by the page, the endpoint completed it,
\* and the second attempt inserted a second post
C37_BugState ==
    /\ Len(posts) = 2
    /\ \E i \in 1..Len(flog) : flog[i].ev = "error" /\ flog[i].attempt = 0
    /\ Has(ccalls[1], "db.insert.ok") /\ Has(ccalls[2], "db.insert.ok")

====
